---- MODULE Spec2Model ----
(***************************************************************************)
(* Verification model of the pixel-movement engine.                        *)
(*                                                                         *)
(*   ImageAnalyzer    region segmentation (regionGrow / segmentImage)      *)
(*   PixelManipulator particle arrays, updatePixelPositions, wrap          *)
(*   MovementEngine   startAnimation / stopAnimation / animate, the        *)
(*                    auxiliary force modules, the scatter pulse           *)
(*                                                                         *)
(* Positions, velocities and forces are floating point in the program; the *)
(* model keeps them on the integer pixel grid and draws every random or    *)
(* trigonometric quantity from a small set of values it can take.          *)
(***************************************************************************)
EXTENDS Integers, Sequences, FiniteSets, TLC

VARIABLES
    \* ImageAnalyzer
    threshold,          \* ImageAnalyzer.threshold
    originalImageData,  \* the loaded image (NoImage = null)
    regions,            \* ImageAnalyzer.regions / MovementEngine.regions
    \* MovementEngine
    params,             \* this.params, the modelled fields
    isRunning,          \* this.isRunning
    animationId,        \* this.animationId (0 = null)
    pending,            \* ids of the callbacks given to requestAnimationFrame
    frameCount,         \* this.frameCount
    pc,                 \* the call animate() is at ("idle": not in animate)
    applied,            \* the calls animate() has made in the current tick
    threw,              \* the last animate() ended with an exception
    flowField,          \* the generator of pixelManipulator.flowField
    gravityWells,       \* this.gravityWells
    mirrorLines,        \* this.mirrorLines
    trailPixels,        \* this.trailPixels
    trailHistory,       \* this.trailHistory: pixel index -> positions
    kaleidoscopeSegments,
    scatterPulse,       \* this.scatterPulse
    pulsesInWindow,     \* observer: pulse activations in the current window
    pulseScatters,      \* observer: scatter applications under the last pulse
    now,                \* performance.now()
    \* PixelManipulator
    pixelPositions,     \* this.pixelPositions
    pixelVelocities,    \* this.pixelVelocities
    displacedData,      \* the frame renderFrame() last put on the canvas
    sampled,            \* what the field samplers last returned
    feedbackFrames,     \* this.feedbackFrames
    recorder,           \* the SimpleMP4 export: exporter, callback, timers
    manipulatorRegions, \* PixelManipulator.regions
    pixelToRegion,      \* PixelManipulator.pixelToRegion (-1 = no region)
    cellularCenters     \* PerlinFlow: this.cellularCenters

segVars == <<threshold, originalImageData, regions>>
loopVars == <<isRunning, animationId, pending, frameCount>>
particleVars == <<pixelPositions, pixelVelocities>>
auxVars ==
    <<gravityWells, mirrorLines, trailPixels, trailHistory,
      kaleidoscopeSegments>>
pulseVars == <<scatterPulse, pulsesInWindow, pulseScatters>>
engVars == <<params, loopVars, pc, applied, threw, flowField, auxVars,
             pulseVars, now, particleVars, displacedData, sampled,
             feedbackFrames, recorder, manipulatorRegions,
             pixelToRegion, cellularCenters>>

vars == <<segVars, engVars>>

NoImage == [width |-> 0, height |-> 0, data |-> <<>>]

Min(a, b) == IF a < b THEN a ELSE b
Max(a, b) == IF a > b THEN a ELSE b

(***************************************************************************)
(* Bounds of the segmentation inputs.                                      *)
(***************************************************************************)
SegW == 13
SegH == 8

(***************************************************************************)
(* Program constants of ImageAnalyzer.                                     *)
(***************************************************************************)
MinRegionSize == 50
MaxRegions == 100
DefaultThreshold == 30

(***************************************************************************)
(* Colours are <<r, g, b>>.                                                *)
(***************************************************************************)
Black == <<0, 0, 0>>
Grey15 == <<15, 15, 15>>
Grey30 == <<30, 30, 30>>
White == <<255, 255, 255>>
Red == <<255, 0, 0>>

\* colorDistance returns sqrt(dr^2+dg^2+db^2); the model keeps the square.
ColorDistanceSq(c1, c2) ==
    LET dr == c1[1] - c2[1]
        dg == c1[2] - c2[2]
        db == c1[3] - c2[3]
    IN  dr * dr + dg * dg + db * db

\* this.colorDistance(seedColor, pixelColor) > this.threshold, for t >= 0
ExceedsThreshold(c1, c2, t) == ColorDistanceSq(c1, c2) > t * t

\* Math.round(total / n) for total >= 0, n > 0
RoundDiv(total, n) == (2 * total + n) \div (2 * n)

\* the four neighbours in the order they are pushed on the stack
NeighboursRightLeftOnly(x, y) == << <<x + 1, y>>, <<x - 1, y>> >>
Neighbours(x, y) == << <<x + 1, y>>, <<x - 1, y>>, <<x, y + 1>>, <<x, y - 1>> >>

\* one stack entry passes the tests of the loop body (in bounds, not visited,
\* within the threshold of the seed colour)
Accepted(ctx, visited, p) ==
    LET x == p[1]
        y == p[2]
        index == y * ctx.width + x
    IN  /\ ~(x < 0 \/ x >= ctx.width \/ y < 0 \/ y >= ctx.height
             \/ index \in visited)
        /\ ~ExceedsThreshold(ctx.seedColor, ctx.data[index + 1], ctx.threshold)

\* the one value of a set that holds one value; {e(v) : v \in {d}} binds v
\* to the value of d
Only(S) == CHOOSE r \in S : TRUE

MaxOf(S) == CHOOSE i \in S : \A j \in S : j <= i

\* position in the stack of the topmost accepted entry, 0 if there is none:
\* the entries above it are popped and skipped (continue)
TopAccepted(ctx, visited, stack) ==
    Only({IF near # {} THEN MaxOf(near)
          ELSE Only({IF all = {} THEN 0 ELSE MaxOf(all) :
                     all \in {{i \in 1..Len(stack) :
                                  Accepted(ctx, visited, stack[i])}}}) :
          near \in {{i \in Max(1, Len(stack) - 3)..Len(stack) :
                        Accepted(ctx, visited, stack[i])}}})

\* the body of the loop for the accepted entry stack[k]
GrowAccept(ctx, stack, acc, k) ==
    LET x == stack[k][1]
        y == stack[k][2]
        index == y * ctx.width + x
        c == ctx.data[index + 1]
    IN  [stack |-> SubSeq(stack, 1, k - 1) \o Neighbours(x, y),
         acc |-> [visited |-> acc.visited \cup {index},
                  pixels |-> Append(acc.pixels, index),
                  totalR |-> acc.totalR + c[1],
                  totalG |-> acc.totalG + c[2],
                  totalB |-> acc.totalB + c[3],
                  minX |-> Min(acc.minX, x),
                  maxX |-> Max(acc.maxX, x),
                  minY |-> Min(acc.minY, y),
                  maxY |-> Max(acc.maxY, y)]]

\* the iterations of the while loop of regionGrow up to and including the
\* next accepted entry; st = [stack, acc]; with no accepted entry left the
\* stack runs empty
GrowOnce(ctx, st) ==
    Only({IF k = 0 THEN [stack |-> <<>>, acc |-> st.acc]
          ELSE GrowAccept(ctx, st.stack, st.acc, k) :
          k \in {TopAccepted(ctx, st.acc.visited, st.stack)}})

\* n rounds of GrowOnce (a round on an empty stack changes nothing)
RECURSIVE GrowLoop(_, _, _)
GrowLoop(ctx, n, st) ==
    IF n <= 1 THEN Only({GrowOnce(ctx, v) : v \in {st}})
    ELSE Only({GrowLoop(ctx, n - n \div 2, v) :
               v \in {GrowLoop(ctx, n \div 2, st)}})

\* the statistics regionGrow derives after the loop
GrownRegion(acc, avgColor) ==
    [region |-> [pixels |-> acc.pixels,
                 avgColor |-> avgColor,
                 brightnessNum |-> 299 * avgColor[1] + 587 * avgColor[2]
                                     + 114 * avgColor[3],
                 bounds |-> [minX |-> acc.minX, maxX |-> acc.maxX,
                             minY |-> acc.minY, maxY |-> acc.maxY],
                 center2 |-> [x |-> acc.minX + acc.maxX,
                              y |-> acc.minY + acc.maxY],
                 size |-> Len(acc.pixels)],
     visited |-> acc.visited]

\* regionGrow: the region grown from (startX, startY) and the visited set
\* it leaves behind.  brightnessNum is brightness * 255000; center2 is
\* twice the centre.
RegionGrow(startX, startY, width, height, visited, data, t) ==
    Only({Only({GrownRegion(acc,
                    IF Len(acc.pixels) = 0 THEN <<0, 0, 0>>
                    ELSE <<RoundDiv(acc.totalR, Len(acc.pixels)),
                           RoundDiv(acc.totalG, Len(acc.pixels)),
                           RoundDiv(acc.totalB, Len(acc.pixels))>>) :
                acc \in {GrowLoop(ctx, width * height + 1,
                            [stack |-> << <<startX, startY>> >>,
                             acc |-> [visited |-> visited, pixels |-> <<>>,
                                      totalR |-> 0, totalG |-> 0,
                                      totalB |-> 0,
                                      minX |-> width, maxX |-> 0,
                                      minY |-> height, maxY |-> 0]]).acc}}) :
          ctx \in {[width |-> width, height |-> height, data |-> data,
                    seedColor |-> data[startY * width + startX + 1],
                    threshold |-> t]}})

\* no filter at all
AnySize(region) == TRUE
\* region.pixels.length > 50
BigEnough(region) == Len(region.pixels) > MinRegionSize

\* visited is one array shared by segmentImage and every regionGrow call
CopiedVisited(before, after) == before
SharedVisited(before, after) == after

\* one iteration of the loops of segmentImage; st = [index, visited, found]
SegStep(img, t, st) ==
    IF st.index >= img.width * img.height \/ st.index \in st.visited
    THEN [index |-> st.index + 1, visited |-> st.visited, found |-> st.found]
    ELSE Only({[index |-> st.index + 1,
                visited |-> SharedVisited(st.visited, g.visited),
                found |-> IF BigEnough(g.region)
                          THEN Append(st.found, g.region)
                          ELSE st.found] :
               g \in {RegionGrow(st.index % img.width,
                                 st.index \div img.width,
                                 img.width, img.height,
                                 st.visited, img.data, t)}})

\* the two nested loops of segmentImage: n iterations, index = y * width + x
RECURSIVE SegLoop(_, _, _, _)
SegLoop(img, t, n, st) ==
    IF n <= 1 THEN Only({SegStep(img, t, v) : v \in {st}})
    ELSE Only({SegLoop(img, t, n - n \div 2, v) :
               v \in {SegLoop(img, t, n \div 2, st)}})

\* regions.sort((a, b) => b.size - a.size): stable, largest first.  The
\* place of rs[i] in the result: after every larger region and every
\* earlier region of the same size.
SortedPlace(rs, i) ==
    1 + Cardinality({j \in 1..Len(rs) :
                        \/ rs[j].size > rs[i].size
                        \/ (rs[j].size = rs[i].size /\ j < i)})

\* the same places, smallest first
SortSmallestFirst(rs) ==
    Only({[k \in 1..Len(rs) |->
              rs[CHOOSE i \in 1..Len(rs) : place[i] = Len(rs) + 1 - k]] :
          place \in {<<>> @@ [i \in 1..Len(rs) |-> SortedPlace(rs, i)]}})
SortBySize(rs) ==
    Only({[k \in 1..Len(rs) |-> rs[CHOOSE i \in 1..Len(rs) : place[i] = k]] :
          place \in {<<>> @@ [i \in 1..Len(rs) |-> SortedPlace(rs, i)]}})

\* consolidateRegions: sort, keep the first 100, number them
ConsolidateRegions(rs) ==
    Only({[i \in 1..Min(MaxRegions, Len(sorted)) |->
              [pixels |-> sorted[i].pixels,
               avgColor |-> sorted[i].avgColor,
               brightnessNum |-> sorted[i].brightnessNum,
               bounds |-> sorted[i].bounds,
               center2 |-> sorted[i].center2,
               size |-> sorted[i].size,
               id |-> i - 1]] :
          sorted \in {SortBySize(rs)}})

SegmentImage(img, t) ==
    Only({ConsolidateRegions(found) :
          found \in {SegLoop(img, t, img.width * img.height,
                             [index |-> 0, visited |-> {},
                              found |-> <<>>]).found}})

(***************************************************************************)
(* Input images of the segmentation specification.                         *)
(***************************************************************************)
SegDims == {<<4, 4>>, <<10, 5>>, <<SegW, SegH>>}
SegPalette == {Black, Grey15, Grey30, White, Red}
SegThresholds == {0, 1, 30, 500}

MkImage(w, h, f(_, _)) ==
    [width |-> w, height |-> h,
     data |-> [i \in 1..(w * h) |-> f((i - 1) % w, (i - 1) \div w)]]

Uniform(w, h, c) == LET f(x, y) == c IN MkImage(w, h, f)
\* left part (x < k) in c1, the rest in c2
VSplit(w, h, k, c1, c2) ==
    LET f(x, y) == IF x < k THEN c1 ELSE c2 IN MkImage(w, h, f)
\* top part (y < k) in c1, the rest in c2
HSplit(w, h, k, c1, c2) ==
    LET f(x, y) == IF y < k THEN c1 ELSE c2 IN MkImage(w, h, f)
\* three vertical bands Black | Grey15 | Grey30: neighbours are within 30 of
\* each other, the outer bands are not
Bands(w, h) ==
    LET f(x, y) == IF 3 * x < w THEN Black
                   ELSE IF 3 * x < 2 * w THEN Grey15 ELSE Grey30
    IN  MkImage(w, h, f)
\* c1 everywhere except one pixel of c2
Dot(w, h, j, c1, c2) ==
    LET f(x, y) == IF y * w + x = j THEN c2 ELSE c1 IN MkImage(w, h, f)

UniformImages == {Uniform(d[1], d[2], c) : d \in SegDims, c \in SegPalette}

SegImages ==
    UniformImages
    \cup {VSplit(d[1], d[2], k, Black, c) : d \in SegDims, k \in {1, 2},
                                             c \in {Grey15, White}}
    \cup {HSplit(d[1], d[2], 4, c, White) : d \in SegDims, c \in {Black, Red}}
    \cup {Bands(d[1], d[2]) : d \in SegDims}
    \cup {Dot(d[1], d[2], j, White, Red) : d \in SegDims, j \in {0, 5}}

IsUniform(img) ==
    /\ img.data # <<>>
    /\ \A i \in 1..Len(img.data) : img.data[i] = img.data[1]

(***************************************************************************)
(* ImageAnalyzer operations.                                               *)
(***************************************************************************)
\* constructor
AnalyzerInit ==
    /\ threshold = DefaultThreshold
    /\ originalImageData = NoImage
    /\ regions = <<>>

\* setThreshold(value)
SetThreshold(value) ==
    /\ threshold' = value
    /\ UNCHANGED <<originalImageData, regions>>

\* segmentImage on the inputs of the segmentation specification, computed
\* once per (threshold, image)
SegTable ==
    {<<t, img, SegmentImage(img, t)>> : t \in SegThresholds, img \in SegImages}

Segmented(img, t) ==
    IF t \in SegThresholds /\ img \in SegImages
    THEN (CHOOSE e \in SegTable : e[1] = t /\ e[2] = img)[3]
    ELSE SegmentImage(img, t)

\* analyzeImage(imageData, width, height)
AnalyzeImage(img) ==
    /\ originalImageData' = img
    /\ regions' = Segmented(img, threshold)
    /\ UNCHANGED threshold

(***************************************************************************)
(* MovementEngine and PixelManipulator.                                    *)
(*                                                                         *)
(* The engine of part_001 (gravity, scatter and scatter pulse, scan-line,  *)
(* kaleidoscope, trails) and its variant of part_002 (random mirrors) are  *)
(* one machine here: with randomMirrors = 0, the only value the part_001   *)
(* engine has, the mirror step does nothing.  JavaScript runs one callback *)
(* to completion, so the calls of the public interface and the frame       *)
(* callbacks happen only while pc = "idle"; the steps inside animate() are *)
(* separate actions so that the order of the calls, and an exception       *)
(* leaving animate() half way, can be observed.                            *)
(***************************************************************************)

\* Bounds of the engine inputs.
EngW == 2
MaxFrame == 3
\* frames counted by the exporter, calls of exportVideo
MaxEncoded == 1
MaxExports == 1
FieldCols == 2
ClockStepMs == 2500
MaxNowMs == 12500

\* Program constants.
WindowMs == 5000
PulseFrames == 2
PulseStrength == 90
GravityRadius == 200
\* params.movementSpeed is a slider value; the model runs with 1 (the
\* constructor's default is 0.5), so that speeds stay on the integer grid
MovementSpeed == 1

Abs(a) == IF a < 0 THEN -a ELSE a
Sign(a) == IF a < 0 THEN -1 ELSE IF a > 0 THEN 1 ELSE 0
\* a / b rounded toward zero, b > 0
TruncDiv(a, b) == IF a >= 0 THEN a \div b ELSE -((-a) \div b)

RECURSIVE SqrtBetween(_, _, _)
SqrtBetween(n, lo, hi) ==
    IF lo >= hi THEN lo
    ELSE Only({IF mid * mid <= n THEN SqrtBetween(n, mid, hi)
                                 ELSE SqrtBetween(n, lo, mid - 1) :
               mid \in {(lo + hi + 1) \div 2}})
\* floor(Math.sqrt(n)), for n below 2^31
ISqrt(n) == Only({SqrtBetween(v, 0, Min(v, 46340)) : v \in {n}})

Width == originalImageData.width
Height == originalImageData.height
PixelCount == Len(pixelPositions)
Vec(x, y) == [x |-> x, y |-> y]

\* PixelManipulator.initializePixelPositions
InitialPositions(img) ==
    [i \in 1..(img.width * img.height) |->
        [x |-> (i - 1) % img.width, y |-> (i - 1) \div img.width,
         originalX |-> (i - 1) % img.width,
         originalY |-> (i - 1) \div img.width]]
InitialVelocities(img) ==
    [i \in 1..(img.width * img.height) |-> Vec(0, 0)]

\* pixelManipulator.flowField = null; a held array f is <<f>>
NoField == <<>>

\* MovementEngine constructor: this.params
DefaultParams ==
    [gravityStrength |-> 0, scatterStrength |-> 0,
     scatterPulseEnabled |-> FALSE, scatterPulseProbability |-> 0,
     randomMirrors |-> 0, scanLineInterference |-> 0,
     kaleidoscopeFractal |-> 0, trails |-> 0, flowFieldType |-> "perlin"]

\* MovementEngine constructor: this.scatterPulse (scheduledAtMs is <<>> for
\* null and <<t>> for the time t)
InitialScatterPulse ==
    [windowStartMs |-> 0, scheduledAtMs |-> <<>>, activeFramesRemaining |-> 0]

\* SimpleMP4Exporter and the export state of PixelMovementDemo and
\* MovementEngine: starting = exportVideo calls that have not yet come back
\* from startRecording(), isRecording and frameCount = the exporter's fields,
\* callback = MovementEngine.frameRecordCallback is set, pollers = pending
\* checkStop timeouts, flushing = stopRecording calls awaiting flush(),
\* downloads = downloadVideo calls made
NoRecording ==
    [starting |-> 0, isRecording |-> FALSE, frameCount |-> 0,
     callback |-> FALSE, pollers |-> 0, flushing |-> 0, downloads |-> 0]

\* constructors of MovementEngine and PixelManipulator; animationId 0 is null
EngineInit ==
    /\ params = DefaultParams
    /\ isRunning = FALSE
    /\ animationId = 0
    /\ pending = {}
    /\ frameCount = 0
    /\ pc = "idle"
    /\ applied = <<>>
    /\ threw = FALSE
    /\ pixelPositions = <<>>
    /\ pixelVelocities = <<>>
    /\ flowField = NoField
    /\ gravityWells = <<>>
    /\ mirrorLines = <<>>
    /\ trailPixels = {}
    /\ trailHistory = <<>>
    /\ kaleidoscopeSegments = 6
    /\ scatterPulse = InitialScatterPulse
    /\ pulsesInWindow = 0
    /\ pulseScatters = 0
    /\ now = ClockStepMs
    /\ displacedData = <<>>
    /\ sampled = <<>>
    /\ feedbackFrames = <<>>
    /\ recorder = NoRecording
    /\ manipulatorRegions = <<>>
    /\ pixelToRegion = <<>>
    /\ cellularCenters = <<>>

(***************************************************************************)
(* Generators.  Each returns the set of values the random draws can give.  *)
(***************************************************************************)
\* the number of cells of a generated field: the image at 1/4 resolution
FieldSize(img) == (img.width \div 4) * (img.height \div 4)

\* generateFlowField: the resolution the generator is called with, the full
\* image for createTimeDisplacementFlow and a quarter of it for the others
FieldWidth(p, img) ==
    IF p.flowFieldType = "timeDisplacement" THEN img.width
    ELSE img.width \div 4
FieldHeight(p, img) ==
    IF p.flowFieldType = "timeDisplacement" THEN img.height
    ELSE img.height \div 4

\* the flow directions (cos angle, sin angle) that are drawn
FlowDirections == {Vec(1, 0), Vec(0, -1)}

\* the arrays a generator can return: every cell is a new object that
\* carries the name of its generator and a flow vector (one direction for
\* the whole field)
CompleteFields(p, img) ==
    {[i \in 1..(FieldWidth(p, img) * FieldHeight(p, img)) |->
         [generator |-> p.flowFieldType, x |-> dir.x, y |-> dir.y]] :
     dir \in FlowDirections}

\* generateFlowField: the fields pixelManipulator.flowField can be after it
GenerateFlowField(p, img, old) ==
    IF img.width = 0 \/ img.height = 0 THEN {old}
    ELSE {<<field>> : field \in CompleteFields(p, img)}

FieldOverwrittenInPlace(old, written) ==
    IF old = NoField THEN <<written>>
    ELSE <<[i \in 1..Max(Len(old[1]), Len(written)) |->
               IF i <= Len(written) THEN written[i] ELSE old[1][i]]>>
\* generateFlowField left by an exception: the generator has filled the
\* cells written of its own new array, setFlowField is not reached
FieldAfterThrow(old, written) == old

\* sampleFlowField(x, y)
SampleFlowField(field, pos, w, h) ==
    IF field = NoField THEN Vec(0, 0)
    ELSE LET fieldWidth == w \div 4
             fieldHeight == h \div 4
             fx == Max(0, Min(fieldWidth - 1, (pos.x * fieldWidth) \div w))
             fy == Max(0, Min(fieldHeight - 1, (pos.y * fieldHeight) \div h))
             index == fy * fieldWidth + fx
         IN  IF index >= 0 /\ index < Len(field[1])
             THEN Vec(field[1][index + 1].x, field[1][index + 1].y)
             ELSE Vec(0, 0)

\* the place a well is drawn at: the last pixel of the image
WellSites(img) == {Vec(img.width - 1, img.height - 1)}

\* generateGravityWells: wellCount = max(1, min(10, ceil(gravityStrength*2)))
GenerateGravityWells(p, img) ==
    IF img.width = 0 \/ img.height = 0 \/ p.gravityStrength <= 0 THEN {<<>>}
    ELSE LET wellCount == Max(1, Min(10, p.gravityStrength * 2))
         IN  {[i \in 1..wellCount |->
                 [x |-> s[i].x, y |-> s[i].y, strength |-> p.gravityStrength]] :
              s \in [1..wellCount -> WellSites(img)]}

\* the mirror lines that can be drawn: the vertical and the horizontal line
\* through (1, 1), with their normals and a*x + b*y + c = 0
MirrorChoices ==
    {[a |-> -1, b |-> 0, c |-> 1, normalX |-> -1, normalY |-> 0],
     [a |-> 0, b |-> 1, c |-> -1, normalX |-> 0, normalY |-> 1]}

\* generateMirrorLines
GenerateMirrorLines(p, img) ==
    IF img.width = 0 \/ img.height = 0 \/ p.randomMirrors <= 0 THEN {<<>>}
    ELSE [1..p.randomMirrors -> MirrorChoices]

(***************************************************************************)
(* Scatter pulse.                                                          *)
(***************************************************************************)
\* Math.random() as a percentage, and Math.random() * windowMs
RandomPercents == {0, 99}
PulseOffsets == {0, ClockStepMs}

ClampProbabilityFromOne(prob) == Max(1, Min(100, prob))
\* Math.max(0, Math.min(100, scatterPulseProbability)), in percent
ClampProbability(prob) == Max(0, Min(100, prob))

\* scheduleScatterPulseForWindow(startTimeMs): the new scheduledAtMs, with
\* r and offset the two random draws
ScheduleScatterPulseForWindow(p, startTimeMs, r, offset) ==
    IF ~p.scatterPulseEnabled THEN <<>>
    ELSE LET q == ClampProbability(p.scatterPulseProbability)
         IN  IF q <= 0 THEN <<>>
             ELSE IF ~(r < q \/ q = 100) THEN <<>>
             ELSE <<startTimeMs + offset>>

\* updateScatterPulse(currentTimeMs)
UpdateScatterPulse(sp, p, currentTimeMs, r, offset) ==
    IF ~p.scatterPulseEnabled THEN sp
    ELSE LET w0 == IF sp.windowStartMs = 0 THEN currentTimeMs
                   ELSE sp.windowStartMs
             w1 == w0 + WindowMs * ((currentTimeMs - w0) \div WindowMs)
             rescheduled == sp.windowStartMs = 0 \/ w1 # w0
             s1 == IF rescheduled
                   THEN ScheduleScatterPulseForWindow(p, w1, r, offset)
                   ELSE sp.scheduledAtMs
             activate == /\ s1 # <<>>
                         /\ currentTimeMs >= s1[1]
                         /\ sp.activeFramesRemaining = 0
         IN  [windowStartMs |-> w1,
              scheduledAtMs |-> IF activate THEN <<>> ELSE s1,
              activeFramesRemaining |->
                  IF activate THEN PulseFrames ELSE sp.activeFramesRemaining]

ScatterStrengthIgnoringPulse(sp, p) ==
    IF sp.activeFramesRemaining = 0 THEN PulseStrength
    ELSE p.scatterStrength
\* getEffectiveScatterStrength
GetEffectiveScatterStrength(sp, p) ==
    IF sp.activeFramesRemaining > 0 THEN PulseStrength
    ELSE IF p.scatterPulseEnabled THEN 0
    ELSE p.scatterStrength

(***************************************************************************)
(* Forces on one particle; pv = [pos |-> ..., vel |-> ...].                *)
(***************************************************************************)
\* applyGravityForces, one well on one particle
WellPull(well, pv) ==
    LET dx == well.x - pv.pos.x
        dy == well.y - pv.pos.y
        d2 == dx * dx + dy * dy
    IN  IF d2 < GravityRadius * GravityRadius /\ d2 > 1
        THEN LET d == ISqrt(d2)
                 force3 == (well.strength * 1500) \div Max(d, 5)
             IN  [pos |-> [pv.pos EXCEPT
                              !.x = @ + TruncDiv(dx * 3 * well.strength, 10 * d),
                              !.y = @ + TruncDiv(dy * 3 * well.strength, 10 * d)],
                  vel |-> Vec(pv.vel.x + TruncDiv(dx * force3, d),
                              pv.vel.y + TruncDiv(dy * force3, d))]
        ELSE pv

RECURSIVE ApplyWells(_, _, _)
ApplyWells(wells, k, pv) ==
    IF k > Len(wells) THEN pv
    ELSE Only({ApplyWells(wells, k + 1, v) : v \in {WellPull(wells[k], pv)}})

\* getPixelBrightness * 255000
Luma(c) == 299 * c[1] + 587 * c[2] + 114 * c[3]

\* calculatePixelBrightnessForce: bright pixels rise, dark pixels sink, and
\* the horizontal drift is sin(2 pi brightness); only the signs are kept
BrightnessForce(c) ==
    Vec(IF Luma(c) > 0 /\ 2 * Luma(c) < 255000 THEN 1
        ELSE IF 2 * Luma(c) > 255000 /\ Luma(c) < 255000 THEN -1 ELSE 0,
        Sign(255000 - 2 * Luma(c)))

\* vel * damping, damping = 0.95
Damp(v) == TruncDiv(v * 95, 100)

\* the velocity limit of updatePixelPositions
ClampSpeed(vel, maxVelocity) ==
    IF vel.x * vel.x + vel.y * vel.y > maxVelocity * maxVelocity
    THEN LET s == ISqrt(vel.x * vel.x + vel.y * vel.y)
         IN  Vec(TruncDiv(vel.x * maxVelocity, s),
                 TruncDiv(vel.y * maxVelocity, s))
    ELSE vel

WrapToroidal(v, size) ==
    IF v < 0 THEN v + size ELSE IF v >= size THEN v - size ELSE v
\* if (pos < 0) pos = size - 1;  if (pos >= size) pos = 0;
WrapAround(v, size) ==
    LET low == IF v < 0 THEN size - 1 ELSE v
    IN  IF low >= size THEN 0 ELSE low

UpdateOneMovingOrigin(pv, force, w, h) ==
    LET vel == ClampSpeed(Vec(Damp(pv.vel.x) + force.x,
                              Damp(pv.vel.y) + force.y),
                          3 * MovementSpeed)
    IN  [pos |-> [x |-> WrapAround(pv.pos.x + vel.x, w),
                  y |-> WrapAround(pv.pos.y + vel.y, h),
                  originalX |-> WrapAround(pv.pos.x + vel.x, w),
                  originalY |-> WrapAround(pv.pos.y + vel.y, h)],
         vel |-> vel]
\* updatePixelPositions, one particle, with force already multiplied by
\* deltaTime * movementSpeed
UpdateOne(pv, force, w, h) ==
    LET vel == ClampSpeed(Vec(Damp(pv.vel.x) + force.x,
                              Damp(pv.vel.y) + force.y),
                          3 * MovementSpeed)
    IN  [pos |-> [pv.pos EXCEPT !.x = WrapAround(@ + vel.x, w),
                                !.y = WrapAround(@ + vel.y, h)],
         vel |-> vel]

\* applyMirrorReflections, one particle against one line: the reflected
\* particle, or <<>> when the line does not reflect it
Reflect(line, pv, w, h) ==
    LET currentDist == line.a * pv.pos.x + line.b * pv.pos.y + line.c
        nextDist == line.a * (pv.pos.x + pv.vel.x)
                    + line.b * (pv.pos.y + pv.vel.y) + line.c
        denominator == currentDist - nextDist
    IN  IF currentDist * nextDist < 0 /\ Abs(currentDist) < 50
        THEN LET ix == pv.pos.x
                       + TruncDiv(Abs(currentDist) * pv.vel.x, Abs(denominator))
                 iy == pv.pos.y
                       + TruncDiv(Abs(currentDist) * pv.vel.y, Abs(denominator))
                 dot == pv.vel.x * line.normalX + pv.vel.y * line.normalY
             IN  IF ix < 0 \/ ix >= w \/ iy < 0 \/ iy >= h THEN <<>>
                 ELSE <<[pos |-> [pv.pos EXCEPT
                            !.x = Max(1, Min(w - 1, ix + 2 * line.normalX)),
                            !.y = Max(1, Min(h - 1, iy + 2 * line.normalY))],
                         vel |-> Vec(pv.vel.x - 2 * dot * line.normalX,
                                     pv.vel.y - 2 * dot * line.normalY)]>>
        ELSE <<>>

\* applyMirrorReflections, one particle: the first line that reflects it
MirrorOne(lines, pv, w, h) ==
    IF pv.vel.x = 0 /\ pv.vel.y = 0 THEN pv
    ELSE LET hits == {k \in 1..Len(lines) : Reflect(lines[k], pv, w, h) # <<>>}
         IN  IF hits = {} THEN pv
             ELSE Reflect(lines[CHOOSE k \in hits : \A j \in hits : k <= j],
                          pv, w, h)[1]

\* the directions (cos angle, sin angle) a scattered particle can take
ScatterDirections == {Vec(1, 0), Vec(-1, 0), Vec(0, 1), Vec(0, -1)}

\* the sets of scatterCount distinct random indices that are drawn: the
\* first particles of the array.  With more indices requested than there
\* are particles the while loop never leaves: there is no set to go on with.
ScatterTargets(total, scatterCount) ==
    IF scatterCount > total THEN {} ELSE {1..scatterCount}

\* applyScatterForces, one scattered particle
ScatterOne(pv, dir, effectiveStrength) ==
    LET scatterSpeed == 10 + MovementSpeed * 5
        jumpDistance == 40 + effectiveStrength * 2
    IN  [pos |-> [pv.pos EXCEPT !.x = @ + dir.x * jumpDistance,
                                !.y = @ + dir.y * jumpDistance],
         vel |-> Vec(dir.x * scatterSpeed, dir.y * scatterSpeed)]

\* the values of combinedWave that are drawn
WaveChoices == {-1, 1}

\* applyScanLineInterference, one particle (the vertical jitter is below
\* one grid unit and is dropped)
ScanLineOne(pv, s, wave, w, h) ==
    LET horizontalDisplacement == wave * ((8 * s * s) \div 10)
        kicked == Vec(pv.vel.x + TruncDiv(horizontalDisplacement * 3, 10),
                      pv.vel.y)
    IN  IF s > 3
        THEN [pos |-> [pv.pos EXCEPT
                         !.x = Max(0, Min(w - 1,
                                 @ + TruncDiv(horizontalDisplacement * (s - 3), 14))),
                         !.y = Max(0, Min(h - 1, @))],
              vel |-> kicked]
        ELSE [pos |-> pv.pos, vel |-> kicked]

\* applyKaleidoscopeFractal skips a particle whose radius from the centre
\* is above min(width, height) / 2 or below 5 (coordinates doubled)
KaleidoscopeSkips(pos, w, h) ==
    LET r2 == (2 * pos.x - w) * (2 * pos.x - w)
              + (2 * pos.y - h) * (2 * pos.y - h)
    IN  r2 > Min(w, h) * Min(w, h) \/ r2 < 100

\* the pulls toward the mirrored position that are drawn
KaleidoscopePulls == {Vec(1, 0), Vec(0, -1)}

\* applyKaleidoscopeFractal, one particle
KaleidoscopeOne(pv, s, pull, w, h) ==
    IF KaleidoscopeSkips(pv.pos, w, h) THEN pv
    ELSE [pos |-> IF s >= 3
                  THEN [pv.pos EXCEPT !.x = Max(0, Min(w - 1, @ + pull.x)),
                                      !.y = Max(0, Min(h - 1, @ + pull.y))]
                  ELSE pv.pos,
          vel |-> Vec(pv.vel.x + pull.x * s, pv.vel.y + pull.y * s)]

Particle(i) == [pos |-> pixelPositions[i], vel |-> pixelVelocities[i]]

\* the two arrays after each particle i became moved[i]
SetParticles(moved) ==
    /\ pixelPositions' = [i \in 1..PixelCount |-> moved[i].pos]
    /\ pixelVelocities' = [i \in 1..PixelCount |-> moved[i].vel]

(***************************************************************************)
(* The steps of animate(), in the order of the calls.                      *)
(***************************************************************************)
NextPhaseScatterFirst(p) ==
    CASE p = "field" -> "gravity"
      [] p = "gravity" -> "update"
      [] p = "update" -> "scatter"
      [] p = "scatter" -> "mirror"
      [] p = "mirror" -> "kaleidoscope"
      [] p = "kaleidoscope" -> "scanline"
      [] p = "scanline" -> "trails"
      [] p = "trails" -> "render"
      [] OTHER -> "idle"
\* the call that follows each call of animate()
NextPhase(p) ==
    CASE p = "field" -> "gravity"
      [] p = "gravity" -> "update"
      [] p = "update" -> "mirror"
      [] p = "mirror" -> "scatter"
      [] p = "scatter" -> "scanline"
      [] p = "scanline" -> "kaleidoscope"
      [] p = "kaleidoscope" -> "trails"
      [] p = "trails" -> "render"
      [] OTHER -> "idle"

\* updateInterval of animate()
UpdateInterval(flowFieldType) ==
    IF flowFieldType \in {"swarm", "cellular", "centrifugal", "chromatic"}
    THEN 5
    ELSE IF flowFieldType = "feedbackEcho" THEN 3 ELSE 30

KeepFrameCount(fc) == fc
\* this.frameCount = 0 of startAnimation
StartFrameCount(fc) == 0

CancelNothing(callbacks, id) == callbacks
\* cancelAnimationFrame(id)
CancelAnimationFrame(callbacks, id) == callbacks \ {id}

\* requestAnimationFrame returns an id no live callback has
RequestAnimationFrame(callbacks, lastId) ==
    CHOOSE n \in 1..(Cardinality(callbacks) + 2) :
        /\ n \notin callbacks
        /\ n # lastId
        /\ \A m \in 1..(n - 1) : m \in callbacks \/ m = lastId

\* the first lines of animate(), entered with isRunning true
EnterAnimate ==
    /\ pc' = "field"
    /\ applied' = <<>>
    /\ threw' = FALSE

\* assignPixelsToRegions: every pixel of a region takes the region's index,
\* a later region overwriting an earlier one
AssignPixelsToRegions(rs, width, height) ==
    [i \in 1..(width * height) |->
        LET owners == {k \in 1..Len(rs) :
                          \E j \in 1..Len(rs[k].pixels) : rs[k].pixels[j] = i - 1}
        IN  IF owners = {} THEN -1
            ELSE (CHOOSE k \in owners : \A l \in owners : l <= k) - 1]

\* loadImage(imageData)
LoadImage(img) ==
    /\ pc = "idle"
    /\ originalImageData' = img
    /\ regions' = Segmented(img, threshold)
    /\ pixelPositions' = InitialPositions(img)
    /\ pixelVelocities' = InitialVelocities(img)
    /\ flowField' \in GenerateFlowField(params, img, flowField)
    /\ gravityWells' \in GenerateGravityWells(params, img)
    /\ mirrorLines' \in GenerateMirrorLines(params, img)
    /\ manipulatorRegions' = regions'
    /\ pixelToRegion' = AssignPixelsToRegions(regions', img.width, img.height)
    /\ UNCHANGED <<threshold, params, loopVars, pc, applied, threw,
                   trailPixels, trailHistory, kaleidoscopeSegments,
                   pulseVars, now, displacedData, sampled, feedbackFrames,
                   recorder, cellularCenters>>

\* the scatter pulse after setParameter(name, value), p the new params
PulseKeptOnDisable(sp, p, name, value, r, offset) ==
    IF name = "scatterPulseEnabled" /\ value
    THEN [windowStartMs |-> now,
          scheduledAtMs |-> ScheduleScatterPulseForWindow(p, now, r, offset),
          activeFramesRemaining |-> 0]
    ELSE sp
PulseAfterSetParameter(sp, p, name, value, r, offset) ==
    IF name = "scatterPulseEnabled"
    THEN IF value
         THEN [windowStartMs |-> now,
               scheduledAtMs |-> ScheduleScatterPulseForWindow(p, now, r, offset),
               activeFramesRemaining |-> 0]
         ELSE [sp EXCEPT !.scheduledAtMs = <<>>, !.activeFramesRemaining = 0]
    ELSE IF name = "scatterPulseProbability"
    THEN [sp EXCEPT !.scheduledAtMs =
             ScheduleScatterPulseForWindow(
                 p, IF sp.windowStartMs # 0 THEN sp.windowStartMs ELSE now,
                 r, offset)]
    ELSE sp

\* the number of activations seen in the window of sp1 (0, 1, or 2 for more),
\* after a step from sp0 to sp1; enabling the pulse starts a new window
CountPulses(sp0, sp1, count, activated) ==
    LET base == IF sp1.windowStartMs # sp0.windowStartMs THEN 0 ELSE count
    IN  IF activated THEN Min(2, base + 1) ELSE base

\* setParameter(name, value)
SetParameter(name, value) ==
    /\ pc = "idle"
    /\ LET p == IF name = "regionThreshold" THEN params
                ELSE [params EXCEPT ![name] = value]
           reload == name = "regionThreshold" /\ originalImageData # NoImage
       IN  /\ params' = p
           /\ threshold' = IF name = "regionThreshold" THEN value ELSE threshold
           /\ regions' = IF reload THEN Segmented(originalImageData, value)
                         ELSE regions
           /\ pixelPositions' = IF reload THEN InitialPositions(originalImageData)
                                ELSE pixelPositions
           /\ pixelVelocities' = IF reload
                                 THEN InitialVelocities(originalImageData)
                                 ELSE pixelVelocities
           /\ flowField' \in IF name = "flowFieldType" \/ reload
                             THEN GenerateFlowField(p, originalImageData,
                                                    flowField)
                             ELSE {flowField}
           /\ gravityWells' \in IF name = "gravityStrength" \/ reload
                                THEN GenerateGravityWells(p, originalImageData)
                                ELSE {gravityWells}
           /\ mirrorLines' \in IF name = "randomMirrors" \/ reload
                               THEN GenerateMirrorLines(p, originalImageData)
                               ELSE {mirrorLines}
           /\ \E r \in RandomPercents, offset \in PulseOffsets :
                 scatterPulse' =
                     PulseAfterSetParameter(scatterPulse, p, name, value, r, offset)
           /\ pulsesInWindow' =
                  IF name = "scatterPulseEnabled" /\ value THEN 0
                  ELSE CountPulses(scatterPulse, scatterPulse', pulsesInWindow,
                                   FALSE)
           /\ pulseScatters' = pulseScatters
           /\ manipulatorRegions' = IF reload THEN regions'
                                    ELSE manipulatorRegions
           /\ pixelToRegion' =
                  IF reload
                  THEN AssignPixelsToRegions(regions', Width, Height)
                  ELSE pixelToRegion
    /\ UNCHANGED <<originalImageData, loopVars, pc, applied, threw,
                   trailPixels, trailHistory, kaleidoscopeSegments, now,
                   displacedData, sampled, feedbackFrames, recorder,
                   cellularCenters>>

\* setParameter('flowFieldType', value) when the generator throws: the
\* parameter is stored, generateFlowField is left by the exception and the
\* rest of setParameter does not run
SetParameterThrows(value) ==
    /\ pc = "idle"
    /\ Width # 0 /\ Height # 0
    /\ params' = [params EXCEPT !.flowFieldType = value]
    /\ \E field \in CompleteFields(params', originalImageData) :
       \E k \in 0..Len(field) :
          flowField' = FieldAfterThrow(flowField, SubSeq(field, 1, k))
    /\ UNCHANGED <<segVars, loopVars, pc, applied, threw, particleVars,
                   auxVars, pulseVars, now, displacedData, sampled,
                   feedbackFrames, recorder,
                   manipulatorRegions, pixelToRegion, cellularCenters>>

StartAnimationUnguarded ==
    /\ pc = "idle"
    /\ isRunning' = TRUE
    /\ frameCount' = StartFrameCount(frameCount)
    /\ EnterAnimate
    /\ UNCHANGED <<segVars, params, animationId, pending, particleVars,
                   flowField, auxVars, pulseVars, now, displacedData, sampled,
                   feedbackFrames, recorder, manipulatorRegions,
                   pixelToRegion, cellularCenters>>
\* startAnimation(): the call of animate() at its end is this tick's entry
StartAnimation ==
    /\ pc = "idle"
    /\ IF isRunning THEN UNCHANGED vars
       ELSE /\ isRunning' = TRUE
            /\ frameCount' = StartFrameCount(frameCount)
            /\ EnterAnimate
            /\ UNCHANGED <<segVars, params, animationId, pending, particleVars,
                           flowField, auxVars, pulseVars, now,
                           displacedData, sampled,
                           feedbackFrames, recorder,
                           manipulatorRegions, pixelToRegion, cellularCenters>>

\* the loop variables after stopAnimation()
Stopped ==
    /\ isRunning' = FALSE
    /\ IF animationId # 0
       THEN /\ pending' = CancelAnimationFrame(pending, animationId)
            /\ animationId' = 0
       ELSE UNCHANGED <<pending, animationId>>

\* stopAnimation()
StopAnimation ==
    /\ pc = "idle"
    /\ Stopped
    /\ UNCHANGED <<segVars, params, frameCount, pc, applied, threw,
                   particleVars, flowField, auxVars, pulseVars, now,
                   displacedData, sampled, feedbackFrames,
                   recorder, manipulatorRegions,
                   pixelToRegion, cellularCenters>>

\* reset(): stopAnimation(), pixelManipulator.reset(), frameCount = 0
Reset ==
    /\ pc = "idle"
    /\ Stopped
    /\ flowField' = NoField
    /\ pixelPositions' = InitialPositions(originalImageData)
    /\ pixelVelocities' = InitialVelocities(originalImageData)
    /\ frameCount' = 0
    /\ feedbackFrames' = <<>>
    /\ recorder' = [recorder EXCEPT !.callback = FALSE]
    /\ manipulatorRegions' = <<>>
    /\ UNCHANGED <<segVars, params, pc, applied, threw, auxVars, pulseVars,
                   now, displacedData, sampled,
                   pixelToRegion, cellularCenters>>

\* the browser runs the callback registered under id: animate()
AnimationFrame(id) ==
    /\ pc = "idle"
    /\ id \in pending
    /\ frameCount < MaxFrame
    /\ pending' = pending \ {id}
    /\ IF isRunning THEN EnterAnimate ELSE UNCHANGED <<pc, applied, threw>>
    /\ UNCHANGED <<segVars, params, isRunning, animationId, frameCount,
                   particleVars, flowField, auxVars, pulseVars, now,
                   displacedData, sampled, feedbackFrames,
                   recorder, manipulatorRegions,
                   pixelToRegion, cellularCenters>>

\* animate(): the periodic flow field and gravity well regeneration
AnimateField ==
    /\ pc = "field"
    /\ flowField' \in
           IF frameCount % UpdateInterval(params.flowFieldType) = 0
           THEN GenerateFlowField(params, originalImageData, flowField)
           ELSE {flowField}
    /\ gravityWells' \in IF frameCount % 120 = 0
                         THEN GenerateGravityWells(params, originalImageData)
                         ELSE {gravityWells}
    /\ pc' = NextPhase(pc)
    /\ UNCHANGED <<segVars, params, loopVars, applied, threw, particleVars,
                   mirrorLines, trailPixels, trailHistory, kaleidoscopeSegments,
                   pulseVars, now, displacedData, sampled,
                   feedbackFrames, recorder,
                   manipulatorRegions, pixelToRegion, cellularCenters>>

\* animate(): the flow field generator throws; nothing catches it, so the
\* exception leaves animate()
AnimateFieldThrows ==
    /\ pc = "field"
    /\ frameCount % UpdateInterval(params.flowFieldType) = 0
    /\ Width # 0 /\ Height # 0
    /\ \E field \in CompleteFields(params, originalImageData) :
       \E k \in 0..Len(field) :
          flowField' = FieldAfterThrow(flowField, SubSeq(field, 1, k))
    /\ pc' = "idle"
    /\ threw' = TRUE
    /\ UNCHANGED <<segVars, params, loopVars, applied, particleVars, auxVars,
                   pulseVars, now, displacedData, sampled,
                   feedbackFrames, recorder,
                   manipulatorRegions, pixelToRegion, cellularCenters>>

\* the rest of the state during a step that moves particles only
ModuleStep(module) ==
    /\ pc' = NextPhase(pc)
    /\ applied' = Append(applied, module)
    /\ UNCHANGED <<segVars, params, loopVars, threw, flowField, gravityWells,
                   mirrorLines, now, displacedData, sampled,
                   feedbackFrames, recorder,
                   manipulatorRegions, pixelToRegion, cellularCenters>>

\* applyGravityForces()
ApplyGravityForces ==
    /\ pc = "gravity"
    /\ IF params.gravityStrength <= 0 \/ Len(gravityWells) = 0
       THEN UNCHANGED particleVars
       ELSE SetParticles([i \in 1..PixelCount |->
                             ApplyWells(gravityWells, 1, Particle(i))])
    /\ ModuleStep("gravity")
    /\ UNCHANGED <<trailPixels, trailHistory, kaleidoscopeSegments, pulseVars, displacedData,
                   sampled, feedbackFrames, recorder,
                   manipulatorRegions, pixelToRegion, cellularCenters>>

\* the values of deltaTime * movementSpeed that are drawn (deltaTime is
\* between 0 and 50 ms)
DeltaChoices == {0, 1}

OriginalColor(pos) ==
    originalImageData.data[pos.originalY * Width + pos.originalX + 1]

\* pixelManipulator.updatePixelPositions(deltaTime, movementSpeed, ...)
UpdatePixelPositions ==
    /\ pc = "update"
    /\ \E dt \in DeltaChoices :
          SetParticles(
              [i \in 1..PixelCount |->
                  UpdateOne(Particle(i),
                            Vec(dt * (BrightnessForce(OriginalColor(pixelPositions[i])).x
                                      + SampleFlowField(flowField, pixelPositions[i],
                                                        Width, Height).x),
                                dt * (BrightnessForce(OriginalColor(pixelPositions[i])).y
                                      + SampleFlowField(flowField, pixelPositions[i],
                                                        Width, Height).y)),
                            Width, Height)])
    /\ ModuleStep("update")
    /\ UNCHANGED <<trailPixels, trailHistory, kaleidoscopeSegments, pulseVars, displacedData,
                   sampled, feedbackFrames, recorder,
                   manipulatorRegions, pixelToRegion, cellularCenters>>

\* applyMirrorReflections()
ApplyMirrorReflections ==
    /\ pc = "mirror"
    /\ IF params.randomMirrors <= 0 \/ Len(mirrorLines) = 0
       THEN UNCHANGED particleVars
       ELSE SetParticles([i \in 1..PixelCount |->
                             MirrorOne(mirrorLines, Particle(i), Width, Height)])
    /\ ModuleStep("mirror")
    /\ UNCHANGED <<trailPixels, trailHistory, kaleidoscopeSegments, pulseVars, displacedData,
                   sampled, feedbackFrames, recorder,
                   manipulatorRegions, pixelToRegion, cellularCenters>>

\* the scatter applications counted under the last activated pulse: the
\* count starts again when a pulse is activated, and a tick adds one when the
\* pulse is active and applyScatterForces passes its guard
CountScatters(sp, sp1, count, acts) ==
    LET base == IF sp.activeFramesRemaining = 0 /\ sp1.activeFramesRemaining > 0
                THEN 0 ELSE count
    IN  IF sp1.activeFramesRemaining > 0 /\ acts
        THEN IF base < PulseFrames + 1 THEN base + 1 ELSE base
        ELSE base

\* updateScatterPulse(currentTime); applyScatterForces(); the decrement of
\* activeFramesRemaining
ApplyScatterForces ==
    /\ pc = "scatter"
    /\ \E r \in RandomPercents, offset \in PulseOffsets :
          LET sp1 == UpdateScatterPulse(scatterPulse, params, now, r, offset)
              effectiveStrength == GetEffectiveScatterStrength(sp1, params)
              scatterCount == (effectiveStrength * PixelCount) \div 300
          IN  /\ scatterPulse' =
                     [sp1 EXCEPT !.activeFramesRemaining =
                                     IF @ > 0 THEN @ - 1 ELSE @]
              /\ pulsesInWindow' =
                     CountPulses(scatterPulse, sp1, pulsesInWindow,
                                 scatterPulse.activeFramesRemaining = 0
                                 /\ sp1.activeFramesRemaining > 0)
              /\ pulseScatters' =
                     CountScatters(scatterPulse, sp1, pulseScatters,
                                   effectiveStrength > 0 /\ frameCount % 3 = 0)
              /\ IF effectiveStrength <= 0 \/ frameCount % 3 # 0
                    \/ scatterCount = 0
                 THEN UNCHANGED particleVars
                 ELSE \E S \in ScatterTargets(PixelCount, scatterCount) :
                      \E dirs \in [S -> ScatterDirections] :
                          SetParticles(
                              [i \in 1..PixelCount |->
                                  IF i \in S
                                  THEN ScatterOne(Particle(i), dirs[i],
                                                  effectiveStrength)
                                  ELSE Particle(i)])
    /\ ModuleStep("scatter")
    /\ UNCHANGED <<trailPixels, trailHistory, kaleidoscopeSegments, displacedData, sampled,
                   feedbackFrames, recorder,
                   manipulatorRegions, pixelToRegion, cellularCenters>>

\* applyScanLineInterference()
ApplyScanLineInterference ==
    /\ pc = "scanline"
    /\ IF params.scanLineInterference <= 0 \/ Width = 0 \/ Height = 0
       THEN UNCHANGED particleVars
       ELSE \E wave \in WaveChoices :
               SetParticles(
                   [i \in 1..PixelCount |->
                       ScanLineOne(Particle(i), params.scanLineInterference,
                                   wave, Width, Height)])
    /\ ModuleStep("scanline")
    /\ UNCHANGED <<trailPixels, trailHistory, kaleidoscopeSegments, pulseVars, displacedData,
                   sampled, feedbackFrames, recorder,
                   manipulatorRegions, pixelToRegion, cellularCenters>>

\* applyKaleidoscopeFractal()
ApplyKaleidoscopeFractal ==
    /\ pc = "kaleidoscope"
    /\ IF params.kaleidoscopeFractal <= 0 \/ Width = 0 \/ Height = 0
       THEN UNCHANGED <<particleVars, kaleidoscopeSegments, displacedData,
                        sampled, feedbackFrames, recorder,
                        manipulatorRegions, pixelToRegion, cellularCenters>>
       ELSE /\ kaleidoscopeSegments' =
                   Max(3, Min(12, 3 + (9 * params.kaleidoscopeFractal) \div 10))
            /\ \E pull \in KaleidoscopePulls :
                  SetParticles(
                      [i \in 1..PixelCount |->
                          KaleidoscopeOne(Particle(i), params.kaleidoscopeFractal,
                                          pull, Width, Height)])
    /\ ModuleStep("kaleidoscope")
    /\ UNCHANGED <<trailPixels, trailHistory, pulseVars, displacedData, sampled,
                   feedbackFrames, recorder,
                   manipulatorRegions, pixelToRegion, cellularCenters>>

\* targetTrailCount of applyTrails()
TargetTrailCount(trails, total) ==
    Min(IF trails <= 3 THEN 200 ELSE IF trails <= 7 THEN 500 ELSE 800,
        (total * trails) \div 10)

\* maxTrailLength of applyTrails()
MaxTrailLength(trails) == 40 + trails * 16

\* cleanupTrailHistory(): the histories of the selected pixels
CleanupTrailHistory(history, selection) ==
    [k \in DOMAIN history \cap selection |-> history[k]]

\* trailData.unshift({x, y}) and the cut to maxTrailLength
TrailUnshift(trailData, position, maxTrailLength) ==
    SubSeq(<<Vec(position.x, position.y)>> \o trailData, 1,
           Min(Len(trailData) + 1, maxTrailLength))

\* the loop of applyTrails() over this.trailPixels: a selected pixel that is
\* a particle gets its position put in front of its history
RecordTrails(history, selection, positions, maxTrailLength) ==
    LET trailing == {k \in selection : k <= Len(positions)}
    IN  [k \in DOMAIN history \cup trailing |->
            IF k \in trailing
            THEN TrailUnshift(IF k \in DOMAIN history THEN history[k]
                              ELSE <<>>,
                              positions[k], maxTrailLength)
            ELSE history[k]]

\* applyTrails()
ApplyTrails ==
    /\ pc = "trails"
    /\ IF params.trails <= 0
       THEN trailPixels' = {} /\ trailHistory' = <<>>
       ELSE IF PixelCount = 0
       THEN UNCHANGED <<trailPixels, trailHistory>>
       ELSE /\ IF frameCount % 600 # 0
               THEN UNCHANGED trailPixels
               ELSE trailPixels' \in
                        {T \in SUBSET (1..PixelCount) :
                             Cardinality(T) =
                                 TargetTrailCount(params.trails, PixelCount)}
            /\ trailHistory' =
                   RecordTrails(IF frameCount % 600 # 0 THEN trailHistory
                                ELSE CleanupTrailHistory(trailHistory,
                                                         trailPixels'),
                                trailPixels', pixelPositions,
                                MaxTrailLength(params.trails))
    /\ ModuleStep("trails")
    /\ UNCHANGED <<particleVars, kaleidoscopeSegments, pulseVars,
                   displacedData, sampled, feedbackFrames,
                   recorder, manipulatorRegions,
                   pixelToRegion, cellularCenters>>

\* one cell of the frame: <<r, g, b, a>>
OpaqueBlack == <<0, 0, 0, 255>>
\* this.originalData at originalIndex; the images of the model are opaque
OriginalColour(img, originalIndex) == img.data[originalIndex + 1] \o <<255>>
\* Math.round(v) = floor(v + 1/2)
MathRound(v) == (2 * v + 1) \div 2

\* the body of createDisplacedImage's loop over the particles
PlaceParticleFirstWins(frame, pos, img) ==
    LET originalIndex == pos.originalY * img.width + pos.originalX
        currentX == MathRound(pos.x)
        currentY == MathRound(pos.y)
        currentIndex == currentY * img.width + currentX
    IN  IF currentX < 0 \/ currentX >= img.width \/
           currentY < 0 \/ currentY >= img.height
        THEN frame
        ELSE IF originalIndex >= 0 /\ originalIndex < Len(img.data) /\
                currentIndex >= 0 /\ currentIndex < Len(frame) /\
                frame[currentIndex + 1] = OpaqueBlack
             THEN [frame EXCEPT ![currentIndex + 1] =
                      OriginalColour(img, originalIndex)]
             ELSE frame
PlaceParticle(frame, pos, img) ==
    LET originalIndex == pos.originalY * img.width + pos.originalX
        currentX == MathRound(pos.x)
        currentY == MathRound(pos.y)
        currentIndex == currentY * img.width + currentX
    IN  IF currentX < 0 \/ currentX >= img.width \/
           currentY < 0 \/ currentY >= img.height
        THEN frame
        ELSE IF originalIndex >= 0 /\ originalIndex < Len(img.data) /\
                currentIndex >= 0 /\ currentIndex < Len(frame)
             THEN [frame EXCEPT ![currentIndex + 1] =
                      OriginalColour(img, originalIndex)]
             ELSE frame

\* the particles first..last placed in array order: the first half, then the
\* second half on the frame the first half leaves
RECURSIVE PlaceParticles(_, _, _, _, _)
PlaceParticles(frame, positions, img, first, last) ==
    IF first > last THEN frame
    ELSE IF first = last THEN PlaceParticle(frame, positions[first], img)
    ELSE LET mid == (first + last) \div 2
         IN  Only({PlaceParticles(placed, positions, img, mid + 1, last) :
                   placed \in {PlaceParticles(frame, positions, img,
                                              first, mid)}})

\* PixelManipulator.createDisplacedImage
CreateDisplacedImage(positions, img) ==
    PlaceParticles([c \in 1..(img.width * img.height) |-> OpaqueBlack],
                   positions, img, 1, Len(positions))

\* this.maxFeedbackFrames
MaxFeedbackFrames == 3

\* the downsampled copy captureFeedbackFrame makes of a frame: every
\* fourth pixel of every fourth row
FeedbackFrame(frame, width, height) ==
    [data |-> [k \in 1..((width \div 4) * (height \div 4)) |->
                  frame[((k - 1) \div (width \div 4)) * 4 * width
                        + ((k - 1) % (width \div 4)) * 4 + 1]],
     width |-> width \div 4, height |-> height \div 4,
     originalWidth |-> width, originalHeight |-> height]

\* this.feedbackFrames after captureFeedbackFrame(frameData)
KeepEveryFrame(frames, frame, width, height, fc) ==
    IF fc % 3 # 0 THEN frames
    ELSE Append(frames, FeedbackFrame(frame, width, height))
CaptureFeedbackFrame(frames, frame, width, height, fc) ==
    IF fc % 3 # 0 THEN frames
    ELSE IF Len(frames) + 1 > MaxFeedbackFrames
         THEN Tail(Append(frames, FeedbackFrame(frame, width, height)))
         ELSE Append(frames, FeedbackFrame(frame, width, height))

\* createFeedbackEchoFlow: the frame the generator samples, the most recent
\* one; none when the buffer is empty (the perlin fallback)
LatestFrame(previousFrames) ==
    IF Len(previousFrames) = 0 THEN <<>>
    ELSE <<previousFrames[Len(previousFrames)]>>

\* SimpleMP4Exporter.recordFrame(): the exporter's frame counter stops at
\* MaxEncoded in the model
RecordFrame(rec) ==
    IF ~rec.isRecording THEN rec
    ELSE [rec EXCEPT !.frameCount = Min(@ + 1, MaxEncoded)]
\* animate(): if (this.frameRecordCallback) this.frameRecordCallback(), the
\* callback exportVideoSimpleMP4 installs
FrameRecordCallback(rec) ==
    IF rec.callback /\ rec.isRecording THEN RecordFrame(rec) ELSE rec

\* animate(): renderFrame(), captureFeedbackFrame(frameData), the frame
\* record callback, frameCount++, requestAnimationFrame
RenderFrame ==
    /\ pc = "render"
    /\ displacedData' = CreateDisplacedImage(pixelPositions, originalImageData)
    /\ feedbackFrames' =
           CaptureFeedbackFrame(feedbackFrames, displacedData', Width, Height,
                                frameCount)
    /\ recorder' = FrameRecordCallback(recorder)
    /\ frameCount' = frameCount + 1
    /\ animationId' = RequestAnimationFrame(pending, animationId)
    /\ pending' = pending \cup {RequestAnimationFrame(pending, animationId)}
    /\ pc' = NextPhase(pc)
    /\ UNCHANGED <<segVars, params, isRunning, applied, threw, particleVars,
                   flowField, auxVars, pulseVars, now, sampled,
                   manipulatorRegions, pixelToRegion, cellularCenters>>

\* performance.now() advances between callbacks
AdvanceClock ==
    /\ pc = "idle"
    /\ now < MaxNowMs
    /\ now' = now + ClockStepMs
    /\ UNCHANGED <<segVars, params, loopVars, pc, applied, threw, particleVars,
                   flowField, auxVars, pulseVars, displacedData,
                   sampled, feedbackFrames, recorder,
                   manipulatorRegions, pixelToRegion, cellularCenters>>

\* the calls inside one animate()
Animate ==
    \/ AnimateField
    \/ ApplyGravityForces
    \/ UpdatePixelPositions
    \/ ApplyMirrorReflections
    \/ ApplyScatterForces
    \/ ApplyScanLineInterference
    \/ ApplyKaleidoscopeFractal
    \/ ApplyTrails
    \/ RenderFrame

(***************************************************************************)
(* Inputs of the engine specifications.                                    *)
(***************************************************************************)
\* two rows of EngW pixels, the left column black and the rest white
EngImages == {VSplit(EngW, 2, 1, Black, White)}

\* one row of EngW pixels, the left one black and the rest white
AuxImages == {VSplit(EngW, 1, 1, Black, White)}

\* one row of EngW + 1 pixels, the left one black and the rest white
ControlImages == {VSplit(EngW + 1, 1, 1, Black, White)}

\* four rows of 4 * FieldCols pixels: a flow field of FieldCols cells
FieldImages == {VSplit(4 * FieldCols, 4, 1, Black, White)}

ControlParams == {"gravityStrength"}
ForceParams == {"gravityStrength", "scatterStrength", "scanLineInterference"}
AuxParams ==
    {"randomMirrors", "scanLineInterference", "kaleidoscopeFractal", "trails"}
PulseParams == {"scatterPulseEnabled", "scatterPulseProbability"}

ParamValues(name) ==
    CASE name = "gravityStrength" -> {0, 1}
      [] name = "scatterStrength" -> {0, 80}
      [] name = "randomMirrors" -> {0, 1}
      [] name = "scanLineInterference" -> {0, 5}
      [] name = "kaleidoscopeFractal" -> {0, 5}
      [] name = "trails" -> {0, 10}
      [] name = "scatterPulseEnabled" -> BOOLEAN
      [] name = "scatterPulseProbability" -> {0, 50, 100}
      [] name = "flowFieldType" -> {"perlin", "feedbackEcho"}
      [] name = "regionThreshold" -> {1, DefaultThreshold}

\* values at the ends of the documented domains and outside them
DomainParams ==
    {"regionThreshold", "scatterStrength", "scanLineInterference",
     "kaleidoscopeFractal", "trails"}
AnyValues(name) ==
    CASE name = "regionThreshold" -> {5, 100, 101}
      [] name = "scatterStrength" -> {0, 100, 150}
      [] name = "scanLineInterference" -> {0, 10, 11}
      [] name = "kaleidoscopeFractal" -> {-1, 0, 10}
      [] name = "trails" -> {0, 10, 11}

Init == AnalyzerInit /\ EngineInit

\* the engine with an image: forces, start, stop, reset, a throwing generator
Next ==
    \/ \E img \in ControlImages : LoadImage(img)
    \/ \E name \in ControlParams : \E value \in ParamValues(name) :
          SetParameter(name, value)
    \/ StartAnimation
    \/ StopAnimation
    \/ Reset
    \/ \E id \in pending : AnimationFrame(id)
    \/ Animate
    \/ AnimateFieldThrows

Spec == Init /\ [][Next]_vars

\* the running engine with gravity, scatter and scan-line interference
ForcesNext ==
    \/ \E img \in EngImages : LoadImage(img)
    \/ \E name \in ForceParams : \E value \in ParamValues(name) :
          SetParameter(name, value)
    \/ StartAnimation
    \/ \E id \in pending : AnimationFrame(id)
    \/ Animate

SpecForces == Init /\ [][ForcesNext]_vars

\* the running engine with the mirror, scan-line, kaleidoscope and trails
\* modules
AuxNext ==
    \/ \E img \in AuxImages : LoadImage(img)
    \/ \E name \in AuxParams : \E value \in ParamValues(name) :
          SetParameter(name, value)
    \/ StartAnimation
    \/ \E id \in pending : AnimationFrame(id)
    \/ Animate

SpecAux == Init /\ [][AuxNext]_vars

\* the engine with a flow field of several cells and generators that can
\* throw
FieldNext ==
    \/ \E img \in FieldImages : LoadImage(img)
    \/ \E value \in ParamValues("flowFieldType") :
          SetParameter("flowFieldType", value)
    \/ \E value \in ParamValues("flowFieldType") : SetParameterThrows(value)
    \/ \E value \in ParamValues("regionThreshold") :
          SetParameter("regionThreshold", value)
    \/ StartAnimation
    \/ Reset
    \/ \E id \in pending : AnimationFrame(id)
    \/ Animate
    \/ AnimateFieldThrows

SpecField == Init /\ [][FieldNext]_vars

(***************************************************************************)
(* PerlinFlow's generators with a singular point.  Vector components are   *)
(* kept in thousandths; a distance is kept in thousandths of a cell.       *)
(***************************************************************************)
\* the generated field is GenSize cells wide and GenSize cells high
GenSize == 4
GenSites == {Vec(x, y) : x \in 0..(GenSize - 1), y \in 0..(GenSize - 1)}
\* params.flowStrength
FlowStrengths == {1, 2, 3}
\* Math.sqrt of the squared distances that occur on the grid, tabulated
MilliRoot ==
    [n \in 0..(2 * (GenSize - 1) * (GenSize - 1)) |-> ISqrt(1000000 * n)]
\* Math.sqrt(dx * dx + dy * dy)
MilliDistance(dx, dy) == MilliRoot[dx * dx + dy * dy]
\* Math.sqrt(totalX * totalX + totalY * totalY)
MilliMagnitude(x, y) ==
    10 * ISqrt(TruncDiv(x, 10) * TruncDiv(x, 10) +
               TruncDiv(y, 10) * TruncDiv(y, 10))

\* One cell of createVortexFlow.  Math.exp(-distance * falloff) is taken to
\* first order, 1 - distance * 0.01; cos and sin of atan2(dy, dx) + PI/2 are
\* -dy/distance and dx/distance.  atSingularPoint records the loop's
\* `distance === 0`; finite records that no division by zero was made.
VortexCell(x, y, centerX, centerY, strength) ==
    LET dx == x - centerX
        dy == y - centerY
        distance == MilliDistance(dx, dy)
        magnitude == strength * (1000 - distance \div 100)
    IN  IF distance = 0
        THEN [generator |-> "vortex", x |-> 0, y |-> 0, magnitude |-> 0,
              finite |-> TRUE, atSingularPoint |-> TRUE]
        ELSE [generator |-> "vortex",
              x |-> TruncDiv((-dy) * magnitude * 1000, distance),
              y |-> TruncDiv(dx * magnitude * 1000, distance),
              magnitude |-> magnitude,
              finite |-> TRUE, atSingularPoint |-> FALSE]

CreateVortexField(centerX, centerY, strength) ==
    [i \in 1..(GenSize * GenSize) |->
        VortexCell((i - 1) % GenSize, (i - 1) \div GenSize,
                   centerX, centerY, strength)]

\* the poles of createMagneticFlow with polarity 'mixed'; Math.random() of
\* the pole's strength is taken at 0.5
MagneticPoles(sites, strength) ==
    [i \in 1..Len(sites) |->
        [x |-> sites[i].x, y |-> sites[i].y,
         charge |-> IF (i - 1) % 2 = 0 THEN 1 ELSE -1,
         strength |-> strength * 1000]]

\* the contribution of one pole to the cell (x, y)
PoleField(x, y, pole) ==
    LET dx == x - pole.x
        dy == y - pole.y
        distanceSquared == dx * dx + dy * dy
        distance == MilliDistance(dx, dy)
        fieldStrength ==
            TruncDiv(pole.charge * pole.strength * 100,
                     Max(distanceSquared, 4))
    IN  IF distance < 2000 THEN Vec(0, 0)
        ELSE Vec(TruncDiv(dx * fieldStrength * 1000, distance),
                 TruncDiv(dy * fieldStrength * 1000, distance))

RECURSIVE SumPoleFields(_, _, _, _)
SumPoleFields(x, y, poles, i) ==
    IF i > Len(poles) THEN Vec(0, 0)
    ELSE LET one == PoleField(x, y, poles[i])
             rest == SumPoleFields(x, y, poles, i + 1)
         IN  Vec(one.x + rest.x, one.y + rest.y)

\* the first pole of the given charge at the least distance from (x, y):
\* <<>> for closestPositive = null, <<pole>> otherwise
ClosestPole(x, y, poles, charge) ==
    LET D2(i) == (x - poles[i].x) * (x - poles[i].x) +
                 (y - poles[i].y) * (y - poles[i].y)
        same == {i \in 1..Len(poles) : poles[i].charge = charge}
        best == {i \in same : \A j \in same : D2(i) < D2(j) \/
                                              (D2(i) = D2(j) /\ i <= j)}
    IN  IF same = {} THEN <<>> ELSE <<poles[Only(best)]>>

\* the curved field lines between the closest positive and the closest
\* negative pole; Math.sin(b * PI) is taken as 4b(1 - b), which agrees with
\* it at b = 0, 1/2 and 1
DipoleCurve(x, y, poles, strength) ==
    LET pos == ClosestPole(x, y, poles, 1)
        neg == ClosestPole(x, y, poles, -1)
    IN  IF Len(poles) < 2 \/ pos = <<>> \/ neg = <<>> THEN Vec(0, 0)
        ELSE LET dipoleX == neg[1].x - pos[1].x
                 dipoleY == neg[1].y - pos[1].y
                 dipoleDistance == MilliDistance(dipoleX, dipoleY)
                 posDistance ==
                     MilliDistance(x - pos[1].x, y - pos[1].y) \div 10
                 negDistance ==
                     MilliDistance(x - neg[1].x, y - neg[1].y) \div 10
                 sine == (4000 * posDistance * negDistance) \div
                         ((posDistance + negDistance) *
                          (posDistance + negDistance))
                 curveStrength == 2 * strength
             IN  IF dipoleDistance > 0
                 THEN Vec(TruncDiv((-dipoleY) * curveStrength * sine * 1000,
                                   dipoleDistance),
                          TruncDiv(dipoleX * curveStrength * sine * 1000,
                                   dipoleDistance))
                 ELSE Vec(0, 0)

\* cos and sin of noiseAngle = noise2D(..) * PI * 0.2, with noise2D at 0,
\* 1 and -1
NoiseAngles ==
    {[cos |-> 1000, sin |-> 0], [cos |-> 809, sin |-> 588],
     [cos |-> 809, sin |-> -588]}

\* the numbers createMagneticFlow divides by at the cell (x, y)
MagneticDivisors(x, y, poles) ==
    LET pos == ClosestPole(x, y, poles, 1)
        neg == ClosestPole(x, y, poles, -1)
        byPole == {MilliDistance(x - poles[i].x, y - poles[i].y) :
                   i \in {j \in 1..Len(poles) :
                            MilliDistance(x - poles[j].x,
                                          y - poles[j].y) >= 2000}}
        byDipole ==
            IF Len(poles) < 2 \/ pos = <<>> \/ neg = <<>> THEN {}
            ELSE IF MilliDistance(neg[1].x - pos[1].x,
                                  neg[1].y - pos[1].y) > 0
                 THEN {MilliDistance(neg[1].x - pos[1].x,
                                     neg[1].y - pos[1].y),
                       MilliDistance(x - pos[1].x, y - pos[1].y) +
                       MilliDistance(x - neg[1].x, y - neg[1].y)}
                 ELSE {}
    IN  byPole \cup byDipole

\* One cell of createMagneticFlow.  atSingularPoint records that a pole
\* lies on the cell; finite records that no division by zero was made.
MagneticCell(x, y, poles, strength, noise) ==
    LET fromPoles == SumPoleFields(x, y, poles, 1)
        curve == DipoleCurve(x, y, poles, strength)
        totalX == fromPoles.x + curve.x + TruncDiv(noise.cos * strength, 5)
        totalY == fromPoles.y + curve.y + TruncDiv(noise.sin * strength, 5)
    IN  [generator |-> "magnetic", x |-> totalX, y |-> totalY,
         magnitude |-> MilliMagnitude(totalX, totalY),
         finite |-> 0 \notin MagneticDivisors(x, y, poles),
         atSingularPoint |->
             \E i \in 1..Len(poles) : poles[i].x = x /\ poles[i].y = y]

CreateMagneticField(sites, strength, noise) ==
    LET poles == MagneticPoles(sites, strength)
    IN  [i \in 1..(GenSize * GenSize) |->
            MagneticCell((i - 1) % GenSize, (i - 1) \div GenSize,
                         poles, strength, noise)]

\* pixelManipulator.setFlowField(perlinFlow.createVortexFlow(...))
CreateVortexFlow(center, strength) ==
    /\ pc = "idle"
    /\ flowField' = <<CreateVortexField(center.x, center.y, strength)>>
    /\ UNCHANGED <<segVars, params, loopVars, pc, applied, threw, particleVars,
                   auxVars, pulseVars, now, displacedData, sampled,
                   feedbackFrames, recorder,
                   manipulatorRegions, pixelToRegion, cellularCenters>>

\* pixelManipulator.setFlowField(perlinFlow.createMagneticFlow(..., 4,
\* strength, 'mixed'))
CreateMagneticFlow(sites, strength, noise) ==
    /\ pc = "idle"
    /\ flowField' = <<CreateMagneticField(sites, strength, noise)>>
    /\ UNCHANGED <<segVars, params, loopVars, pc, applied, threw, particleVars,
                   auxVars, pulseVars, now, displacedData, sampled,
                   feedbackFrames, recorder,
                   manipulatorRegions, pixelToRegion, cellularCenters>>

\* where Math.random() puts the four poles
PoleSites == {Vec(1, 1), Vec(GenSize - 1, GenSize - 2)}

\* the generators alone, on a field of GenSize by GenSize cells
GenNext ==
    \/ \E center \in GenSites : \E strength \in FlowStrengths :
          CreateVortexFlow(center, strength)
    \/ \E sites \in [1..4 -> PoleSites] : \E strength \in FlowStrengths :
       \E noise \in NoiseAngles :
          CreateMagneticFlow(sites, strength, noise)

SpecGen == Init /\ [][GenNext]_vars

(***************************************************************************)
(* The rasterizer on particle arrays of any positions.                     *)
(***************************************************************************)
\* the rasterized image is RasterW pixels wide and one pixel high
RasterW == 2
RasterImages == {VSplit(RasterW, 1, 1, Red, White)}
\* positions on the image and one pixel outside it on every side
RasterSites(img) ==
    {Vec(x, y) : x \in (-1)..img.width, y \in (-1)..img.height}
\* the particles of img, each moved to any of the sites
ParticleArrays(img) ==
    {[i \in 1..(img.width * img.height) |->
         [x |-> site[i].x, y |-> site[i].y,
          originalX |-> InitialPositions(img)[i].originalX,
          originalY |-> InitialPositions(img)[i].originalY]] :
     site \in [1..(img.width * img.height) -> RasterSites(img)]}

\* animate() at its renderFrame() call, first tick after startAnimation(),
\* with the particles anywhere
RasterInit ==
    /\ threshold = DefaultThreshold
    /\ \E img \in RasterImages :
          /\ originalImageData = img
          /\ regions = Segmented(img, DefaultThreshold)
          /\ pixelPositions \in ParticleArrays(img)
          /\ pixelVelocities = InitialVelocities(img)
          /\ flowField \in GenerateFlowField(DefaultParams, img, NoField)
          /\ gravityWells \in GenerateGravityWells(DefaultParams, img)
          /\ mirrorLines \in GenerateMirrorLines(DefaultParams, img)
    /\ params = DefaultParams
    /\ isRunning = TRUE
    /\ animationId = 0
    /\ pending = {}
    /\ frameCount = 0
    /\ pc = "render"
    /\ applied = <<"gravity", "update", "mirror", "scatter", "scanline",
                   "kaleidoscope", "trails">>
    /\ threw = FALSE
    /\ trailPixels = {}
    /\ trailHistory = <<>>
    /\ kaleidoscopeSegments = 6
    /\ scatterPulse = InitialScatterPulse
    /\ pulsesInWindow = 0
    /\ pulseScatters = 0
    /\ now = ClockStepMs
    /\ displacedData = <<>>
    /\ sampled = <<>>
    /\ feedbackFrames = <<>>
    /\ recorder = NoRecording
    /\ manipulatorRegions = regions
    /\ pixelToRegion = AssignPixelsToRegions(regions, Width, Height)
    /\ cellularCenters = <<>>

RasterNext ==
    \/ \E id \in pending : AnimationFrame(id)
    \/ Animate

SpecRaster == RasterInit /\ [][RasterNext]_vars

(***************************************************************************)
(* consolidateRegions on lists of grown regions of any length.             *)
(***************************************************************************)
\* the lists have up to MaxRegions + ExtraRegions regions
ExtraRegions == 2
RegionCounts == 0..5 \cup (MaxRegions - 2)..(MaxRegions + ExtraRegions)
SizePatterns == {"equal", "ascending", "descending", "lastLargest",
                 "period2", "period3", "period4"}
\* the size of the i-th of n grown regions, always above MinRegionSize
PatternSize(pattern, i, n) ==
    MinRegionSize + 1 +
    (CASE pattern = "equal" -> 0
       [] pattern = "ascending" -> i
       [] pattern = "descending" -> n - i
       [] pattern = "lastLargest" -> (IF i = n THEN 9 ELSE 0)
       [] pattern = "period2" -> i % 2
       [] pattern = "period3" -> i % 3
       [] pattern = "period4" -> i % 4)
\* what regionGrow returns for a run of `size` pixels at the start of row
\* i - 1, the rows alternately black and white
RowRegion(i, size, rowWidth) ==
    LET avgColor == IF i % 2 = 0 THEN Black ELSE White
    IN  [pixels |-> [k \in 1..size |-> (i - 1) * rowWidth + k - 1],
         avgColor |-> avgColor,
         brightnessNum |-> 299 * avgColor[1] + 587 * avgColor[2]
                             + 114 * avgColor[3],
         bounds |-> [minX |-> 0, maxX |-> size - 1,
                     minY |-> i - 1, maxY |-> i - 1],
         center2 |-> [x |-> size - 1, y |-> 2 * (i - 1)],
         size |-> size]
\* the local array `regions` of segmentImage before consolidateRegions
GrownLists ==
    {[i \in 1..n |->
         RowRegion(i, PatternSize(pattern, i, n),
                   MinRegionSize + MaxRegions + ExtraRegions + 10)] :
     n \in RegionCounts, pattern \in SizePatterns}

\* segmentImage at its return statement
ConsolidateInit ==
    /\ threshold = DefaultThreshold
    /\ originalImageData = NoImage
    /\ regions \in GrownLists
    /\ EngineInit

\* return this.consolidateRegions(regions, width, height)
ConsolidateCall ==
    /\ regions' = ConsolidateRegions(regions)
    /\ UNCHANGED <<threshold, originalImageData, engVars>>

ConsolidateNext == ConsolidateCall

SpecConsolidate == ConsolidateInit /\ [][ConsolidateNext]_vars

(***************************************************************************)
(* PerlinFlow's field samplers.  A coordinate is kept in halves of a cell  *)
(* (2 * x), a cell's components in whole numbers.                          *)
(***************************************************************************)
\* the sampled field is SampleW cells wide and SampleW cells high
SampleW == 2
ZeroCell == [x |-> 0, y |-> 0, magnitude |-> 0]

\* lerp(a, b, t) = a + t * (b - a), t in halves; the corners differ by
\* multiples of 4, so that two nested lerps stay whole
LerpMidpoint(a, b, t) == a + (b - a) \div 2
Lerp(a, b, t) == a + (t * (b - a)) \div 2

\* sampleField(field, x, y, width, height): clamp, floor, field[index] or
\* the zero vector for a missing cell
SampleField(field, x, y, width, height) ==
    LET cx == Max(0, Min(2 * (width - 1), x))
        cy == Max(0, Min(2 * (height - 1), y))
        index == (cy \div 2) * width + cx \div 2
    IN  IF index + 1 \in DOMAIN field THEN field[index + 1] ELSE ZeroCell

\* bilinearSampleField(field, x, y, width, height)
BilinearSampleField(field, x, y, width, height) ==
    LET x1 == x \div 2
        y1 == y \div 2
        x2 == Min(x1 + 1, width - 1)
        y2 == Min(y1 + 1, height - 1)
        fx == x - 2 * x1
        fy == y - 2 * y1
        a == SampleField(field, 2 * x1, 2 * y1, width, height)
        b == SampleField(field, 2 * x2, 2 * y1, width, height)
        c == SampleField(field, 2 * x1, 2 * y2, width, height)
        d == SampleField(field, 2 * x2, 2 * y2, width, height)
        top == [x |-> Lerp(a.x, b.x, fx), y |-> Lerp(a.y, b.y, fx),
                magnitude |-> Lerp(a.magnitude, b.magnitude, fx)]
        bottom == [x |-> Lerp(c.x, d.x, fx), y |-> Lerp(c.y, d.y, fx),
                   magnitude |-> Lerp(c.magnitude, d.magnitude, fx)]
    IN  [x |-> Lerp(top.x, bottom.x, fy), y |-> Lerp(top.y, bottom.y, fy),
         magnitude |-> Lerp(top.magnitude, bottom.magnitude, fy)]

\* fields of SampleW by SampleW cells: constant, growing along the rows,
\* growing along the columns, and one whose last cell is missing
SampleFields ==
    {[i \in 1..(SampleW * SampleW) |-> [x |-> 4, y |-> -4, magnitude |-> 8]],
     [i \in 1..(SampleW * SampleW) |->
         [x |-> 4 * i, y |-> -8 * i, magnitude |-> 12 * i]],
     [i \in 1..(SampleW * SampleW) |->
         [x |-> 4 * ((i - 1) % SampleW), y |-> 8 * ((i - 1) \div SampleW),
          magnitude |-> 4 * i]],
     [i \in 1..(SampleW * SampleW - 1) |->
         [x |-> -4 * i, y |-> 4, magnitude |-> 4 * i]]}
\* coordinates, in halves, from one cell before the grid to one cell after
SampleCoordinates == (-2)..(2 * SampleW)

\* a PerlinFlow whose caller holds one of the fields
SampleInit ==
    /\ AnalyzerInit
    /\ params = DefaultParams
    /\ isRunning = FALSE
    /\ animationId = 0
    /\ pending = {}
    /\ frameCount = 0
    /\ pc = "idle"
    /\ applied = <<>>
    /\ threw = FALSE
    /\ pixelPositions = <<>>
    /\ pixelVelocities = <<>>
    /\ flowField \in {<<field>> : field \in SampleFields}
    /\ gravityWells = <<>>
    /\ mirrorLines = <<>>
    /\ trailPixels = {}
    /\ trailHistory = <<>>
    /\ kaleidoscopeSegments = 6
    /\ scatterPulse = InitialScatterPulse
    /\ pulsesInWindow = 0
    /\ pulseScatters = 0
    /\ now = ClockStepMs
    /\ displacedData = <<>>
    /\ sampled = <<>>
    /\ feedbackFrames = <<>>
    /\ recorder = NoRecording
    /\ manipulatorRegions = <<>>
    /\ pixelToRegion = <<>>
    /\ cellularCenters = <<>>

\* sampleField and bilinearSampleField called with the same arguments
SampleBoth(x, y) ==
    /\ pc = "idle"
    /\ flowField # NoField
    /\ sampled' = <<[x |-> x, y |-> y,
                     nearest |-> SampleField(flowField[1], x, y,
                                             SampleW, SampleW),
                     bilinear |-> BilinearSampleField(flowField[1], x, y,
                                                      SampleW, SampleW)]>>
    /\ UNCHANGED <<segVars, params, loopVars, pc, applied, threw, flowField,
                   auxVars, pulseVars, now, particleVars, displacedData,
                   feedbackFrames, recorder,
                   manipulatorRegions, pixelToRegion, cellularCenters>>

SampleNext == \E x, y \in SampleCoordinates : SampleBoth(x, y)

SpecSample == SampleInit /\ [][SampleNext]_vars

\* the running engine with scatter and trails at values inside and outside
\* the sliders' ranges
SelectionParams == {"scatterStrength", "trails"}
SelectionValues(name) ==
    CASE name = "scatterStrength" -> {0, 100, 600}
      [] name = "trails" -> {0, 10, 20}
SelectionNext ==
    \/ \E img \in EngImages : LoadImage(img)
    \/ \E name \in SelectionParams : \E value \in SelectionValues(name) :
          SetParameter(name, value)
    \/ StartAnimation
    \/ \E id \in pending : AnimationFrame(id)
    \/ Animate

SpecSelection == Init /\ [][SelectionNext]_vars

\* the engine without an image, with any values given to setParameter
ParamsNext ==
    \/ \E name \in DomainParams : \E value \in AnyValues(name) :
          SetParameter(name, value)
    \/ StartAnimation
    \/ StopAnimation
    \/ \E id \in pending : AnimationFrame(id)
    \/ Animate

SpecParams == Init /\ [][ParamsNext]_vars

\* the engine's scatter pulse against the clock
PulseNext ==
    \/ \E name \in PulseParams : \E value \in ParamValues(name) :
          SetParameter(name, value)
    \/ StartAnimation
    \/ StopAnimation
    \/ \E id \in pending : AnimationFrame(id)
    \/ Animate
    \/ AdvanceClock

SpecPulse == Init /\ [][PulseNext]_vars

\* the analyzer alone, on larger images
SegNext ==
    \/ \E v \in SegThresholds : SetThreshold(v) /\ UNCHANGED engVars
    \/ \E img \in SegImages : AnalyzeImage(img) /\ UNCHANGED engVars

SpecSeg == Init /\ [][SegNext]_vars

(***************************************************************************)
(* Segmentation properties.                                                *)
(***************************************************************************)
AllPixels(img) == 0..(img.width * img.height - 1)
PixelSet(region) == {region.pixels[i] : i \in 1..Len(region.pixels)}

OneRegionCoveringAll(img, rs) ==
    /\ Len(rs) = 1
    /\ PixelSet(rs[1]) = AllPixels(img)
    /\ rs[1].size = img.width * img.height
    /\ rs[1].bounds = [minX |-> 0, maxX |-> img.width - 1,
                       minY |-> 0, maxY |-> img.height - 1]
    /\ rs[1].avgColor = img.data[1]

\* C2 as stated: a uniform single-colour image that has been analysed (with
\* any threshold of SegThresholds) has exactly one region, made of all W*H
\* pixels; for the 4x4 black image that is size 16, brightness 0 and bounds
\* (0,3,0,3).
C2_UniformOneRegion ==
    IsUniform(originalImageData) =>
        /\ OneRegionCoveringAll(originalImageData, regions)
        /\ (originalImageData = Uniform(4, 4, Black) =>
               /\ regions[1].size = 16
               /\ regions[1].brightnessNum = 0)

\* C2 amended: a uniform image of more than 50 pixels has exactly one
\* region, covering all W*H pixels with bounds (0,W-1,0,H-1) and the image's
\* colour; a uniform image of at most 50 pixels (the 4x4 image included)
\* has no region at all, because its only grown region is discarded.
C2_UniformOneRegionIfLarge ==
    IsUniform(originalImageData) =>
        IF originalImageData.width * originalImageData.height > MinRegionSize
        THEN OneRegionCoveringAll(originalImageData, regions)
        ELSE regions = <<>>

C2_Witness ==
    /\ IsUniform(originalImageData)
    /\ originalImageData.width * originalImageData.height > MinRegionSize
    /\ Len(regions) = 1
    /\ regions[1].size = SegW * SegH

RECURSIVE SumSizes(_)
SumSizes(rs) == IF rs = <<>> THEN 0 ELSE Head(rs).size + SumSizes(Tail(rs))

\* C3: the regions returned by segmentation are pairwise disjoint and their
\* pixel counts sum to at most width * height.
C3_RegionsDisjoint ==
    /\ \A i, j \in 1..Len(regions) :
          i # j => PixelSet(regions[i]) \cap PixelSet(regions[j]) = {}
    /\ \A i \in 1..Len(regions) :
          /\ regions[i].size = Cardinality(PixelSet(regions[i]))
          /\ PixelSet(regions[i]) \subseteq AllPixels(originalImageData)
    /\ SumSizes(regions) <= originalImageData.width * originalImageData.height

C3_Witness ==
    /\ Len(regions) >= 2
    /\ SumSizes(regions) = originalImageData.width * originalImageData.height

(***************************************************************************)
(* Engine properties.                                                      *)
(***************************************************************************)
InsideImage(pos) ==
    /\ 0 <= pos.x /\ pos.x < Width
    /\ 0 <= pos.y /\ pos.y < Height

\* the call animate() made last in the current tick ("" before the first)
LastApplied == IF applied = <<>> THEN "" ELSE applied[Len(applied)]

Moved(i) ==
    \/ pixelPositions[i] # InitialPositions(originalImageData)[i]
    \/ pixelVelocities[i] # Vec(0, 0)

\* C1: when updatePixelPositions returns, every particle has 0 <= x < width
\* and 0 <= y < height, whatever the positions and velocities were before the
\* call, positions displaced out of the image by earlier force modules
\* included.
C1_InsideAfterUpdate ==
    LastApplied = "update" =>
        \A i \in 1..PixelCount : InsideImage(pixelPositions[i])

\* a particle that the call has put on the last column while it moves left
\* by at least the image width: it came from beyond the right edge or was
\* wrapped from below 0
C1_Witness ==
    /\ LastApplied = "update"
    /\ \E i \in 1..PixelCount :
          /\ pixelPositions[i].x = Width - 1
          /\ pixelVelocities[i].x <= -Width

\* the particles are the initial ones of the image of the next state
ReInitialised ==
    /\ pixelPositions' = InitialPositions(originalImageData')
    /\ pixelVelocities' = InitialVelocities(originalImageData')

\* C4: once stopAnimation has returned and until startAnimation is called,
\* no tick executes: animate() is at no step and no frame callback is left
\* registered, frameCount does not increase, no module is applied and the
\* particles change only by being initialised again (loadImage, reset).
C4_NoTickWhileStopped ==
    [][/\ ~isRunning' => (pc' = "idle" /\ pending' = {})
       /\ (~isRunning /\ ~isRunning') =>
             /\ frameCount' <= frameCount
             /\ applied' = applied
             /\ (particleVars' = particleVars \/ ReInitialised)]_vars

\* stopped after at least two ticks that moved a particle
C4_Witness ==
    /\ ~isRunning
    /\ animationId = 0
    /\ frameCount >= 2
    /\ \E i \in 1..PixelCount : Moved(i)

\* C5 as stated: startAnimation after stopAnimation leaves the particle
\* positions, the particle velocities and the frame count as they were when
\* the animation was stopped.
C5_ResumeKeepsFrameCount ==
    [][(~isRunning /\ isRunning') =>
           (particleVars' = particleVars /\ frameCount' = frameCount)]_vars

\* C5 as amended: startAnimation after stopAnimation leaves the particle
\* positions and velocities as they were when the animation was stopped and
\* sets the frame count to 0; the first tick starts from there.
C5_ResumeRestartsFrameCount ==
    [][(~isRunning /\ isRunning') =>
           /\ particleVars' = particleVars
           /\ frameCount' = 0
           /\ pc' = "field"]_vars

\* started again with particles that earlier ticks have moved
C5_Witness ==
    /\ isRunning
    /\ pc = "field"
    /\ frameCount = 0
    /\ \E i \in 1..PixelCount : Moved(i)

\* C6: with the scatter pulse enabled there is at most one pulse activation
\* in any one window [windowStartMs, windowStartMs + 5000), for any ticks and
\* setParameter calls.
C6_OnePulsePerWindow ==
    params.scatterPulseEnabled => pulsesInWindow <= 1

\* C7: with the scatter pulse enabled and scatterPulseProbability 0, no
\* pulse is scheduled or activated: from scheduledAtMs null and
\* activeFramesRemaining 0, every tick, window change and setParameter call
\* that keeps the probability at 0 leaves them null and 0.
C7_NoPulseAtProbabilityZero ==
    [][(/\ params.scatterPulseProbability = 0
        /\ params'.scatterPulseProbability = 0
        /\ scatterPulse.scheduledAtMs = <<>>
        /\ scatterPulse.activeFramesRemaining = 0)
       => (/\ scatterPulse'.scheduledAtMs = <<>>
           /\ scatterPulse'.activeFramesRemaining = 0)]_vars

\* enabled with probability 0, ticks done and the window advanced twice
C7_Witness ==
    /\ params.scatterPulseEnabled
    /\ params.scatterPulseProbability = 0
    /\ frameCount >= 2
    /\ scatterPulse.windowStartMs >= ClockStepMs + 2 * WindowMs
    /\ scatterPulse.scheduledAtMs = <<>>
    /\ scatterPulse.activeFramesRemaining = 0
    /\ pulsesInWindow = 0

\* the auxiliary modules among the calls of a tick
AuxModules ==
    {"gravity", "scatter", "mirror", "kaleidoscope", "scanline", "trails"}

\* the place of a module in the order gravity, scatter, mirror/kaleidoscope,
\* scan-line, trails
ClaimedRank(module) ==
    CASE module = "gravity" -> 1
      [] module = "scatter" -> 2
      [] module \in {"mirror", "kaleidoscope"} -> 3
      [] module = "scanline" -> 4
      [] module = "trails" -> 5

\* C8 as stated: in every tick the auxiliary modules run in the order
\* gravity, scatter, mirror/kaleidoscope, scan-line, trails.
C8_ClaimedOrder ==
    \A i, j \in 1..Len(applied) :
        (i < j /\ applied[i] \in AuxModules /\ applied[j] \in AuxModules)
            => ClaimedRank(applied[i]) <= ClaimedRank(applied[j])

CodeOrder ==
    <<"gravity", "update", "mirror", "scatter", "scanline", "kaleidoscope",
      "trails">>

\* C8 as amended: in every tick the calls run in the order gravity, position
\* update, mirror reflection, scatter, scan-line, kaleidoscope, trails.
C8_CodeOrder ==
    /\ Len(applied) <= Len(CodeOrder)
    /\ applied = SubSeq(CodeOrder, 1, Len(applied))
    /\ pc = "render" => applied = CodeOrder

\* a tick with every module switched on has made all its calls
C8_Witness ==
    /\ pc = "render"
    /\ Len(applied) = Len(CodeOrder)
    /\ params.randomMirrors > 0
    /\ params.scanLineInterference > 0
    /\ params.kaleidoscopeFractal > 0
    /\ params.trails > 0

\* C9: each auxiliary module with strength 0 leaves every particle position
\* and velocity unchanged: gravity with gravityStrength 0, scatter with
\* scatterStrength 0 and the pulse disabled, mirror with randomMirrors 0,
\* scan-line with scanLineInterference 0, kaleidoscope with
\* kaleidoscopeFractal 0, trails with trails 0.
C9_ZeroStrengthNoOp ==
    [][/\ (pc = "gravity" /\ params.gravityStrength = 0)
              => particleVars' = particleVars
       /\ (pc = "scatter" /\ params.scatterStrength = 0
              /\ ~params.scatterPulseEnabled)
              => particleVars' = particleVars
       /\ (pc = "mirror" /\ params.randomMirrors = 0)
              => particleVars' = particleVars
       /\ (pc = "scanline" /\ params.scanLineInterference = 0)
              => particleVars' = particleVars
       /\ (pc = "kaleidoscope" /\ params.kaleidoscopeFractal = 0)
              => particleVars' = particleVars
       /\ (pc = "trails" /\ params.trails = 0)
              => particleVars' = particleVars]_vars

\* gravity and scatter have run with strength 0 in a frame in which scatter
\* acts, on particles that are moving
C9_Witness ==
    /\ LastApplied = "scatter"
    /\ frameCount % 3 = 0
    /\ params.gravityStrength = 0
    /\ params.scatterStrength = 0
    /\ ~params.scatterPulseEnabled
    /\ \E i \in 1..PixelCount : pixelVelocities[i] # Vec(0, 0)

\* C10: when the flow field generator has thrown during a tick, the tick
\* goes on and the next tick is scheduled: once that animate() has returned
\* with the engine running, a frame callback is registered.
C10_LoopSurvivesThrow ==
    (threw /\ isRunning /\ pc = "idle") => pending # {}

\* the cells of a held field come from one run of one generator
OneGeneration(held) ==
    held # NoField =>
        \A i, j \in 1..Len(held[1]) : held[1][i] = held[1][j]

\* C11: when a generator step fails the field held by the simulation is the
\* previous field, and the held field is only ever replaced as a whole: by a
\* completely generated new field (or dropped by reset), never overwritten
\* in part.
C11_FieldReplacedWholesale ==
    [][/\ \/ flowField' = flowField
          \/ flowField' = NoField
          \/ \E field \in CompleteFields(params', originalImageData') :
                flowField' = <<field>>
       /\ OneGeneration(flowField')
       /\ (pc = "field" /\ threw') => flowField' = flowField
       /\ (pc = "idle" /\ params'.flowFieldType # params.flowFieldType
              /\ \E i \in 1..Len(flowField') : \E j \in 1..Len(flowField'[i]) :
                    flowField'[i][j].generator # params'.flowFieldType)
              => flowField' = flowField]_vars

\* a generator failed during a tick after a failed change of the generator:
\* the field of the earlier generator is still held
C11_Witness ==
    /\ threw
    /\ flowField # NoField
    /\ Len(flowField[1]) >= 2
    /\ flowField[1][1].generator # params.flowFieldType

\* C12: after any setParameter calls every stored parameter lies in its
\* documented domain: regionThreshold in 5..100, scatterStrength in 0..100,
\* scanLineInterference, kaleidoscopeFractal and trails in 0..10.
C12_ParamsInDomain ==
    /\ threshold \in 5..100
    /\ params.scatterStrength \in 0..100
    /\ params.scanLineInterference \in 0..10
    /\ params.kaleidoscopeFractal \in 0..10
    /\ params.trails \in 0..10

\* C13: while a W x H image is loaded the particle arrays have W * H
\* entries and particle i (counted from 0) has originalX = i mod W and
\* originalY = floor(i / W), after any ticks, start, stop and reset calls and
\* parameter changes.
C13_OriginalCoordinatesKept ==
    originalImageData # NoImage =>
        /\ Len(pixelPositions) = Width * Height
        /\ Len(pixelVelocities) = Width * Height
        /\ \A i \in 1..(Width * Height) :
              /\ pixelPositions[i].originalX = (i - 1) % Width
              /\ pixelPositions[i].originalY = (i - 1) \div Width

\* after two ticks a particle is away from its original coordinates
C13_Witness ==
    /\ originalImageData # NoImage
    /\ frameCount >= 2
    /\ \E i \in 1..PixelCount :
          \/ pixelPositions[i].x # pixelPositions[i].originalX
          \/ pixelPositions[i].y # pixelPositions[i].originalY

\* C14: setParameter('regionThreshold', v) leaves the current position and
\* velocity of every particle as they were before the call.
C14_ThresholdKeepsParticles ==
    [][threshold' # threshold => particleVars' = particleVars]_vars

(***************************************************************************)
(* Generator properties.                                                   *)
(***************************************************************************)
HeldField == flowField[1]

\* C15: in every generated field, the cell that lies exactly on a singular
\* point (the vortex centre, a magnetic pole) is the zero vector with
\* magnitude 0, and no cell is NaN or Infinity.
C15_SingularCellIsZero ==
    flowField # NoField =>
        \A i \in 1..Len(HeldField) :
            /\ HeldField[i].finite
            /\ HeldField[i].atSingularPoint =>
                   /\ HeldField[i].x = 0
                   /\ HeldField[i].y = 0
                   /\ HeldField[i].magnitude = 0

(***************************************************************************)
(* Rasterizer properties.                                                  *)
(***************************************************************************)
\* the particles whose rounded position is the cell of index c
WritersOf(positions, img, c) ==
    {i \in 1..Len(positions) :
        /\ MathRound(positions[i].x) \in 0..(img.width - 1)
        /\ MathRound(positions[i].y) \in 0..(img.height - 1)
        /\ MathRound(positions[i].y) * img.width +
           MathRound(positions[i].x) = c}
ExpectedFrame(positions, img) ==
    [k \in 1..(img.width * img.height) |->
        IF WritersOf(positions, img, k - 1) = {} THEN OpaqueBlack
        ELSE LET last == positions[MaxOf(WritersOf(positions, img, k - 1))]
             IN  OriginalColour(img, last.originalY * img.width +
                                     last.originalX)]

\* C16: the frame renderFrame() produces is a function of the particle
\* array only: each cell holds the original colour of the highest-index
\* particle whose rounded position is that cell, every other cell is
\* opaque black, and particles rounded out of bounds write nothing; hence
\* an unchanged particle array gives the same buffer again.
C16_FrameFromParticles ==
    [][pc = "render" /\ pc' # "render" =>
          displacedData' = ExpectedFrame(pixelPositions, originalImageData)]_vars

\* a frame has been rendered from two particles of different colours that
\* share a cell: the cell shows the later particle's colour and a cell no
\* particle is on is black
C16_Witness ==
    /\ pc = "idle"
    /\ frameCount = 1
    /\ displacedData = ExpectedFrame(pixelPositions, originalImageData)
    /\ \E c \in 0..(Len(displacedData) - 1) :
       \E i, j \in WritersOf(pixelPositions, originalImageData, c) :
          /\ i < j
          /\ displacedData[c + 1] = OriginalColour(originalImageData, j - 1)
          /\ OriginalColour(originalImageData, i - 1) #
             OriginalColour(originalImageData, j - 1)
    /\ \E c \in 1..Len(displacedData) : displacedData[c] = OpaqueBlack

(***************************************************************************)
(* consolidateRegions properties.                                          *)
(***************************************************************************)
\* C17: consolidateRegions returns at most 100 regions, ordered by
\* non-increasing size, with ids 0..n-1 in that order; they are regions of
\* the list it was given, each once, and no region left out is larger than
\* a region returned (with more than 100 given, the 100 largest).
C17_LargestHundredInOrder ==
    [][/\ Len(regions') = Min(MaxRegions, Len(regions))
       /\ \A k \in 1..Len(regions') : regions'[k].id = k - 1
       /\ \A k \in 1..(Len(regions') - 1) :
             regions'[k].size >= regions'[k + 1].size
       /\ \A k \in 1..Len(regions') :
             \E i \in 1..Len(regions) :
                /\ regions'[k].pixels = regions[i].pixels
                /\ regions'[k].size = regions[i].size
       /\ \A k, l \in 1..Len(regions') :
             regions'[k].pixels = regions'[l].pixels => k = l
       /\ \A i \in 1..Len(regions) :
             (\A k \in 1..Len(regions') :
                 regions'[k].pixels # regions[i].pixels) =>
                 \A k \in 1..Len(regions') :
                     regions[i].size <= regions'[k].size]_vars

\* 100 numbered regions of different sizes, one of them from a row beyond
\* the hundredth: the list given had more than 100 regions
C17_Witness ==
    /\ Len(regions) = MaxRegions
    /\ \A k \in 1..Len(regions) :
          "id" \in DOMAIN regions[k] /\ regions[k].id = k - 1
    /\ regions[1].size > regions[MaxRegions].size
    /\ \E k \in 1..Len(regions) : regions[k].bounds.minY >= MaxRegions

(***************************************************************************)
(* Minimum-size filter properties.                                         *)
(***************************************************************************)
\* every region segmentImage grows from the pixel `index` on, kept or not
RECURSIVE GrownFrom(_, _, _, _)
GrownFrom(img, t, index, visited) ==
    IF index >= img.width * img.height THEN <<>>
    ELSE IF index \in visited THEN GrownFrom(img, t, index + 1, visited)
    ELSE Only({<<g.region>> \o GrownFrom(img, t, index + 1, g.visited) :
               g \in {RegionGrow(index % img.width, index \div img.width,
                                 img.width, img.height, visited, img.data,
                                 t)}})

\* C18: a grown region is discarded exactly when it has fewer than 50
\* pixels: every grown region of 50 or more pixels is returned (the images
\* here grow fewer than 100 regions, so the cap takes none away) and no
\* returned region has fewer than 50 pixels.
C18_KeptFromFiftyPixels ==
    \A t \in SegThresholds :
        (originalImageData # NoImage /\
         regions = Segmented(originalImageData, t)) =>
            LET grown == GrownFrom(originalImageData, t, 0, {})
            IN  /\ \A g \in 1..Len(grown) :
                      grown[g].size >= MinRegionSize =>
                          \E k \in 1..Len(regions) :
                              regions[k].pixels = grown[g].pixels
                /\ \A k \in 1..Len(regions) :
                      regions[k].size >= MinRegionSize

(***************************************************************************)
(* Degenerate segmentations.                                               *)
(***************************************************************************)
\* the while loop of every regionGrow call of segmentImage, from the pixel
\* `index` on, has run its stack empty within width * height + 1 accepted
\* entries
RECURSIVE StacksRunEmpty(_, _, _, _)
StacksRunEmpty(img, t, index, visited) ==
    IF index >= img.width * img.height THEN TRUE
    ELSE IF index \in visited THEN StacksRunEmpty(img, t, index + 1, visited)
    ELSE Only({/\ end.stack = <<>>
               /\ StacksRunEmpty(img, t, index + 1, end.acc.visited) :
               end \in {GrowLoop([width |-> img.width, height |-> img.height,
                                  data |-> img.data,
                                  seedColor |-> img.data[index + 1],
                                  threshold |-> t],
                                 img.width * img.height + 1,
                                 [stack |-> << <<index % img.width,
                                                 index \div img.width>> >>,
                                  acc |-> [visited |-> visited,
                                           pixels |-> <<>>,
                                           totalR |-> 0, totalG |-> 0,
                                           totalB |-> 0,
                                           minX |-> img.width, maxX |-> 0,
                                           minY |-> img.height,
                                           maxY |-> 0]])}})

\* C19: for every image and every threshold >= 0, threshold 0 included,
\* segmentation ends (every region-growing loop runs its stack empty), every
\* pixel is grown into exactly one region, kept or discarded, and the list
\* returned, which may be empty, has at most 100 regions, none of them
\* smaller than the minimum size of 50 pixels.
C19_DegenerateSegmentation ==
    /\ Len(regions) <= MaxRegions
    /\ \A k \in 1..Len(regions) :
          /\ regions[k].size >= MinRegionSize
          /\ regions[k].size = Len(regions[k].pixels)
    /\ \A t \in SegThresholds :
          (originalImageData # NoImage /\
           regions = Segmented(originalImageData, t)) =>
              LET grown == GrownFrom(originalImageData, t, 0, {})
              IN  /\ StacksRunEmpty(originalImageData, t, 0, {})
                  /\ \A p \in AllPixels(originalImageData) :
                        Cardinality({g \in 1..Len(grown) :
                            \E n \in 1..Len(grown[g].pixels) :
                                grown[g].pixels[n] = p}) = 1
                  /\ \A g \in 1..Len(grown) :
                        Cardinality(PixelSet(grown[g])) = Len(grown[g].pixels)

\* an image of two colours analysed with threshold 0: the one-pixel region
\* is discarded and one region is returned
C19_Witness ==
    /\ threshold = 0
    /\ originalImageData # NoImage
    /\ ~IsUniform(originalImageData)
    /\ regions = Segmented(originalImageData, 0)
    /\ Len(regions) = 1
    /\ Len(GrownFrom(originalImageData, 0, 0, {})) = 2

(***************************************************************************)
(* Sampler properties.                                                     *)
(***************************************************************************)
\* C20: at every integer grid coordinate (x, y), on the grid, on its border
\* or outside it, bilinearSampleField returns the same x, y and magnitude
\* as sampleField.
C20_BilinearEqualsNearest ==
    (sampled # <<>> /\ sampled[1].x % 2 = 0 /\ sampled[1].y % 2 = 0) =>
        /\ sampled[1].bilinear.x = sampled[1].nearest.x
        /\ sampled[1].bilinear.y = sampled[1].nearest.y
        /\ sampled[1].bilinear.magnitude = sampled[1].nearest.magnitude

\* both samplers have been called at an integer coordinate outside the
\* grid, on a field whose cells differ, and returned a cell that is not zero
C20_Witness ==
    /\ sampled # <<>>
    /\ sampled[1].x = -2
    /\ sampled[1].y = 2 * SampleW
    /\ sampled[1].nearest.magnitude # 0
    /\ sampled[1].bilinear = sampled[1].nearest
    /\ flowField[1][1] # flowField[1][2]

(***************************************************************************)
(* Selection loops.                                                        *)
(***************************************************************************)
\* C21: the distinct-index selection loops of applyScatterForces and of
\* updateTrailPixelSelection never ask for more distinct indices than there
\* are particles, whatever values setParameter has stored, so every tick
\* ends.
C21_SelectionLoopsEnd ==
    /\ (pc = "scatter" /\ frameCount % 3 = 0) =>
           \A r \in RandomPercents, offset \in PulseOffsets :
               (GetEffectiveScatterStrength(
                    UpdateScatterPulse(scatterPulse, params, now, r, offset),
                    params) * PixelCount) \div 300 <= PixelCount
    /\ (pc = "trails" /\ params.trails > 0 /\ PixelCount > 0
           /\ frameCount % 600 = 0) =>
           TargetTrailCount(params.trails, PixelCount) <= PixelCount

(***************************************************************************)
(* Feedback buffer.                                                        *)
(***************************************************************************)
\* the particles of img, each one pixel to the right of its original place,
\* the last column wrapped to the first
ShiftedPositions(img) ==
    [i \in 1..(img.width * img.height) |->
        [InitialPositions(img)[i] EXCEPT !.x = (@ + 1) % img.width]]

\* captures of two frames of img: the particles at their original places and
\* one pixel to the right
EchoFrames(img) ==
    {FeedbackFrame(CreateDisplacedImage(positions, img), img.width, img.height) :
        positions \in {InitialPositions(img), ShiftedPositions(img)}}

\* the buffers captureFeedbackFrame can have left: up to maxFeedbackFrames
\* captured frames, oldest first
EchoBuffers(img) ==
    UNION {[1..n -> EchoFrames(img)] : n \in 0..MaxFeedbackFrames}

\* startAnimation() has entered animate() with the feedback-echo generator
\* selected, a loaded image and the frames of earlier runs in the buffer
EchoInit ==
    /\ threshold = DefaultThreshold
    /\ params = [DefaultParams EXCEPT !.flowFieldType = "feedbackEcho"]
    /\ \E img \in FieldImages :
          /\ originalImageData = img
          /\ regions = Segmented(img, DefaultThreshold)
          /\ pixelPositions = InitialPositions(img)
          /\ pixelVelocities = InitialVelocities(img)
          /\ flowField \in GenerateFlowField(params, img, NoField)
          /\ gravityWells \in GenerateGravityWells(params, img)
          /\ mirrorLines \in GenerateMirrorLines(params, img)
          /\ feedbackFrames \in EchoBuffers(img)
          /\ displacedData = IF feedbackFrames = <<>> THEN <<>>
                             ELSE CreateDisplacedImage(InitialPositions(img), img)
    /\ isRunning = TRUE
    /\ animationId = 0
    /\ pending = {}
    /\ frameCount = 0
    /\ pc = "field"
    /\ applied = <<>>
    /\ threw = FALSE
    /\ trailPixels = {}
    /\ trailHistory = <<>>
    /\ kaleidoscopeSegments = 6
    /\ scatterPulse = InitialScatterPulse
    /\ pulsesInWindow = 0
    /\ pulseScatters = 0
    /\ now = ClockStepMs
    /\ sampled = <<>>
    /\ recorder = NoRecording
    /\ manipulatorRegions = regions
    /\ pixelToRegion = AssignPixelsToRegions(regions, Width, Height)
    /\ cellularCenters = <<>>

EchoNext ==
    \/ \E id \in pending : AnimationFrame(id)
    \/ Animate

SpecEcho == EchoInit /\ [][EchoNext]_vars

\* a frame with all of its width * height cells
WholeFrame(f) ==
    /\ Len(f.data) = f.width * f.height
    /\ f.width = f.originalWidth \div 4
    /\ f.height = f.originalHeight \div 4

\* C22: the feedback buffer holds at most 3 frames; only the capture at the
\* end of a tick changes it, by appending the downsampled copy of the frame
\* that tick has just rasterized and dropping the oldest frame when there
\* are more than 3, the kept frames staying as they were captured; so the
\* frame the feedback-echo generator reads at the start of a tick is a whole
\* frame of an earlier tick.
C22_FeedbackBufferBounded ==
    [][/\ Len(feedbackFrames') <= MaxFeedbackFrames
       /\ \A k \in 1..Len(feedbackFrames') : WholeFrame(feedbackFrames'[k])
       /\ pc # "render" => feedbackFrames' \in {feedbackFrames, <<>>}
       /\ (pc = "render" /\ feedbackFrames' # feedbackFrames) =>
              LET new == FeedbackFrame(displacedData', Width, Height)
                  n == Len(feedbackFrames)
              IN  /\ displacedData' =
                         CreateDisplacedImage(pixelPositions, originalImageData)
                  /\ feedbackFrames' =
                         IF n < MaxFeedbackFrames
                         THEN Append(feedbackFrames, new)
                         ELSE Append(SubSeq(feedbackFrames, 2, n), new)
       /\ (pc = "field" /\ params.flowFieldType = "feedbackEcho") =>
              /\ feedbackFrames' = feedbackFrames
              /\ LatestFrame(feedbackFrames) # <<>> =>
                     WholeFrame(LatestFrame(feedbackFrames)[1])
      ]_vars

\* a tick that began with the feedback-echo generator reading a full buffer
\* has ended with a capture: the buffer is still full, its newest frame is
\* the copy of the frame just rasterized and differs from the oldest
C22_Witness ==
    /\ pc = "idle"
    /\ params.flowFieldType = "feedbackEcho"
    /\ frameCount = 1
    /\ Len(feedbackFrames) = MaxFeedbackFrames
    /\ feedbackFrames[MaxFeedbackFrames] =
           FeedbackFrame(displacedData, Width, Height)
    /\ feedbackFrames[1] # feedbackFrames[MaxFeedbackFrames]
    /\ feedbackFrames[1].data # <<>>

(***************************************************************************)
(* Video export: PixelMovementDemo.exportVideo with SimpleMP4Exporter.     *)
(* Every await and every setTimeout ends a step; the codec is supported.   *)
(***************************************************************************)
\* exportVideo(), up to the await of startRecording(): the animation is
\* started when it is not running (PixelMovementDemo.startAnimation returns
\* early without regions)
ExportVideo ==
    /\ pc = "idle"
    /\ originalImageData # NoImage
    /\ recorder.starting + recorder.pollers + recorder.flushing
           + recorder.downloads < MaxExports
    /\ recorder' = [recorder EXCEPT !.starting = @ + 1]
    /\ IF isRunning \/ Len(regions) = 0
       THEN UNCHANGED <<isRunning, frameCount, pc, applied, threw>>
       ELSE /\ isRunning' = TRUE
            /\ frameCount' = StartFrameCount(frameCount)
            /\ EnterAnimate
    /\ UNCHANGED <<segVars, params, animationId, pending, particleVars,
                   flowField, auxVars, pulseVars, now, displacedData, sampled,
                   feedbackFrames,
                   manipulatorRegions, pixelToRegion, cellularCenters>>

\* startRecording() has come back: a new encoder and muxer, frameCount = 0,
\* isRecording = true; exportVideoSimpleMP4 sets the frame record callback
\* and the first checkStop timeout
RecordingStarted ==
    /\ pc = "idle"
    /\ recorder.starting > 0
    /\ recorder' = [recorder EXCEPT !.starting = @ - 1,
                                    !.isRecording = TRUE,
                                    !.frameCount = 0,
                                    !.callback = TRUE,
                                    !.pollers = @ + 1]
    /\ UNCHANGED <<segVars, params, loopVars, pc, applied, threw, particleVars,
                   flowField, auxVars, pulseVars, now, displacedData, sampled,
                   feedbackFrames,
                   manipulatorRegions, pixelToRegion, cellularCenters>>

\* SimpleMP4Exporter.stopRecording(), up to the await of flush()
StopRecording(rec) ==
    IF ~rec.isRecording THEN rec
    ELSE [rec EXCEPT !.isRecording = FALSE, !.flushing = @ + 1]

\* a checkStop timeout fires: finalizeSimpleMP4Export when the animation is
\* not running, another timeout while the exporter is recording
CheckStop ==
    /\ pc = "idle"
    /\ recorder.pollers > 0
    /\ recorder' =
           IF ~isRunning /\ recorder.isRecording
           THEN [StopRecording(recorder) EXCEPT !.pollers = @ - 1]
           ELSE IF recorder.isRecording THEN recorder
           ELSE [recorder EXCEPT !.pollers = @ - 1]
    /\ UNCHANGED <<segVars, params, loopVars, pc, applied, threw, particleVars,
                   flowField, auxVars, pulseVars, now, displacedData, sampled,
                   feedbackFrames,
                   manipulatorRegions, pixelToRegion, cellularCenters>>

\* flush() has come back: stopRecording returns the video,
\* finalizeSimpleMP4Export downloads it and clears the frame record callback
FlushDone ==
    /\ pc = "idle"
    /\ recorder.flushing > 0
    /\ recorder' = [recorder EXCEPT !.flushing = @ - 1,
                                    !.downloads = @ + 1,
                                    !.callback = FALSE]
    /\ UNCHANGED <<segVars, params, loopVars, pc, applied, threw, particleVars,
                   flowField, auxVars, pulseVars, now, displacedData, sampled,
                   feedbackFrames,
                   manipulatorRegions, pixelToRegion, cellularCenters>>

\* one row of EngW - 1 pixels
RecordImages == {VSplit(EngW - 1, 1, 1, Black, White)}

RecordNext ==
    \/ \E img \in RecordImages : LoadImage(img)
    \/ StartAnimation
    \/ StopAnimation
    \/ \E id \in pending : AnimationFrame(id)
    \/ Animate
    \/ ExportVideo
    \/ RecordingStarted
    \/ CheckStop
    \/ FlushDone

\* the browser runs every pending timeout, promise continuation and
\* animation frame callback; the user's clicks are not forced
SpecRecord ==
    /\ Init
    /\ [][RecordNext]_vars
    /\ WF_vars(RecordingStarted)
    /\ WF_vars(CheckStop)
    /\ WF_vars(FlushDone)
    /\ WF_vars(Animate)
    /\ WF_vars(\E id \in pending : AnimationFrame(id))

\* C23: once a recording has taken a frame and the animation has been
\* stopped, the exporter's stopRecording is eventually entered (its flush is
\* followed by the download); only a call that finds the exporter recording
\* starts a flush, and the exporter counts no frame while it is not
\* recording.
C23_StopFinalizesOnce ==
    /\ (recorder.isRecording /\ recorder.frameCount > 0 /\ ~isRunning
           /\ pc = "idle")
           ~> (~recorder.isRecording)
    /\ [][recorder'.flushing > recorder.flushing =>
              recorder.isRecording /\ ~recorder'.isRecording]_vars
    /\ [][recorder'.frameCount > recorder.frameCount =>
              recorder.isRecording]_vars

(***************************************************************************)
(* Regions of the simulation.                                              *)
(***************************************************************************)
\* one row with a region of MinRegionSize pixels: two black pixels, the rest
\* white
RegionImages == {VSplit(MinRegionSize + 2, 1, 2, Black, White)}

RegionNext ==
    \/ \E img \in RegionImages : LoadImage(img)
    \/ \E value \in {DefaultThreshold, 500} :
          SetParameter("regionThreshold", value)
    \/ \E value \in ParamValues("flowFieldType") :
          SetParameter("flowFieldType", value)
    \/ StartAnimation
    \/ Reset
    \/ \E id \in pending : AnimationFrame(id)
    \/ Animate

SpecRegions == Init /\ [][RegionNext]_vars

\* getStats().regionCount
RegionCount == Len(manipulatorRegions)

\* C24: the region list and the pixel-to-region assignment of the simulation
\* change only when an image is loaded or regionThreshold changes; the
\* reported region count is the number of regions of the last segmentation,
\* and every pixel-to-region id that is not negative is the index of a
\* region of the list.
C24_RegionsFollowSegmentation ==
    /\ [][(manipulatorRegions' # manipulatorRegions
               \/ pixelToRegion' # pixelToRegion) =>
              (originalImageData' # originalImageData
                  \/ threshold' # threshold)]_vars
    /\ [](RegionCount = Len(regions))
    /\ [](\A i \in 1..Len(pixelToRegion) :
              pixelToRegion[i] >= 0 => pixelToRegion[i] < RegionCount)

(***************************************************************************)
(* The cell a particle samples.                                            *)
(***************************************************************************)
\* a generated field whose cell (cx, cy), at index cy * width + cx, holds
\* the vector (cx, cy)
CoordinateField(p, img) ==
    [i \in 1..(FieldWidth(p, img) * FieldHeight(p, img)) |->
        [generator |-> p.flowFieldType,
         x |-> (i - 1) % FieldWidth(p, img),
         y |-> (i - 1) \div FieldWidth(p, img)]]

\* images of FieldCols field cells, side by side and one above the other
LookupImages ==
    {VSplit(4 * FieldCols, 4, 1, Black, White),
     VSplit(4, 4 * FieldCols, 1, Black, White)}
LookupTypes == {"perlin", "timeDisplacement"}

\* loadImage() has run with one of the flow field types selected and its
\* generator has returned the coordinate field
LookupInit ==
    /\ threshold = DefaultThreshold
    /\ \E type \in LookupTypes :
          params = [DefaultParams EXCEPT !.flowFieldType = type]
    /\ \E img \in LookupImages :
          /\ originalImageData = img
          /\ regions = Segmented(img, DefaultThreshold)
          /\ pixelPositions = InitialPositions(img)
          /\ pixelVelocities = InitialVelocities(img)
          /\ flowField = <<CoordinateField(params, img)>>
          /\ gravityWells \in GenerateGravityWells(params, img)
          /\ mirrorLines \in GenerateMirrorLines(params, img)
    /\ manipulatorRegions = regions
    /\ pixelToRegion = AssignPixelsToRegions(regions, Width, Height)
    /\ cellularCenters = <<>>
    /\ isRunning = FALSE
    /\ animationId = 0
    /\ pending = {}
    /\ frameCount = 0
    /\ pc = "idle"
    /\ applied = <<>>
    /\ threw = FALSE
    /\ trailPixels = {}
    /\ trailHistory = <<>>
    /\ kaleidoscopeSegments = 6
    /\ scatterPulse = InitialScatterPulse
    /\ pulsesInWindow = 0
    /\ pulseScatters = 0
    /\ now = ClockStepMs
    /\ displacedData = <<>>
    /\ sampled = <<>>
    /\ feedbackFrames = <<>>
    /\ recorder = NoRecording

\* updatePixelPositions: sampleFlowField(pos.x, pos.y) for particle i
SampleParticle(i) ==
    /\ pc = "idle"
    /\ sampled' = <<[x |-> pixelPositions[i].x, y |-> pixelPositions[i].y,
                     flow |-> SampleFlowField(flowField, pixelPositions[i],
                                              Width, Height)]>>
    /\ UNCHANGED <<segVars, params, loopVars, pc, applied, threw, flowField,
                   auxVars, pulseVars, now, particleVars, displacedData,
                   feedbackFrames, recorder, manipulatorRegions,
                   pixelToRegion, cellularCenters>>

LookupNext == \E i \in 1..PixelCount : SampleParticle(i)

SpecLookup == LookupInit /\ [][LookupNext]_vars

\* C25: the vector sampled at an in-bounds position (x, y) is the cell at
\* (floor(x * fw / width), floor(y * fh / height)) of the active field, fw
\* and fh being the resolution that field was generated at.
C25_SampledCellOfActiveField ==
    sampled # <<>> =>
        LET fw == FieldWidth(params, originalImageData)
            fh == FieldHeight(params, originalImageData)
            fx == (sampled[1].x * fw) \div Width
            fy == (sampled[1].y * fh) \div Height
            cell == flowField[1][fy * fw + fx + 1]
        IN  sampled[1].flow = Vec(cell.x, cell.y)

(***************************************************************************)
(* Scatter under the pulse.                                                *)
(***************************************************************************)
ScatterParams ==
    {"scatterStrength", "scatterPulseEnabled", "scatterPulseProbability"}
ScatterValues(name) ==
    CASE name = "scatterStrength" -> {0, 80}
      [] name = "scatterPulseEnabled" -> BOOLEAN
      [] name = "scatterPulseProbability" -> {100}

ScatterNext ==
    \/ \E img \in EngImages : LoadImage(img)
    \/ \E name \in ScatterParams : \E value \in ScatterValues(name) :
          SetParameter(name, value)
    \/ StartAnimation
    \/ \E id \in pending : AnimationFrame(id)
    \/ Animate

SpecScatter == Init /\ [][ScatterNext]_vars

\* the pulse a tick leaves when updateScatterPulse has produced sp1
AfterTick(sp1) ==
    [sp1 EXCEPT !.activeFramesRemaining = IF @ > 0 THEN @ - 1 ELSE @]

\* C26: in the scatter step of a tick, with the scatter pulse enabled and no
\* pulse active after updateScatterPulse, the effective strength is 0
\* whatever scatterStrength is and no particle is moved; with the scatter
\* pulse disabled the effective strength is scatterStrength.
C26_PulseGatesScatter ==
    [][pc = "scatter" =>
          \A r \in RandomPercents, offset \in PulseOffsets :
              LET sp1 == UpdateScatterPulse(scatterPulse, params, now, r, offset)
              IN  scatterPulse' = AfterTick(sp1) =>
                      /\ (params.scatterPulseEnabled
                             /\ sp1.activeFramesRemaining = 0) =>
                             /\ GetEffectiveScatterStrength(sp1, params) = 0
                             /\ particleVars' = particleVars
                      /\ ~params.scatterPulseEnabled =>
                             GetEffectiveScatterStrength(sp1, params)
                                 = params.scatterStrength]_vars

\* the scatter step of a frame in which scatter acts has run with
\* scatterStrength 80, the pulse enabled, scheduled for later and not active
C26_Witness ==
    /\ LastApplied = "scatter"
    /\ frameCount % 3 = 0
    /\ PixelCount > 0
    /\ params.scatterStrength = 80
    /\ params.scatterPulseEnabled
    /\ scatterPulse.scheduledAtMs # <<>>
    /\ scatterPulse.activeFramesRemaining = 0

(***************************************************************************)
(* Scatter applications of a pulse.                                        *)
(***************************************************************************)
\* C27: every activated scatter pulse produces at least one scatter
\* application: when the tick that ends a pulse has run (the pulse was
\* active before it and activeFramesRemaining is 0 after it), at least one
\* tick of the pulse had a frameCount divisible by 3.
C27_PulseScattersOnce ==
    [][(/\ pc = "scatter"
        /\ scatterPulse.activeFramesRemaining > 0
        /\ scatterPulse'.activeFramesRemaining = 0)
       => pulseScatters' >= 1]_vars

(***************************************************************************)
(* Frame callbacks of the animation loop.                                  *)
(***************************************************************************)
\* C28: for any interleaving of startAnimation, stopAnimation and reset with
\* ticks, a throwing tick included, at most one animate callback is
\* registered at any time; a registered callback is the one animationId
\* names and the engine is running, and none is registered while a tick
\* executes or while the engine is stopped.
C28_OneCallbackPending ==
    /\ Cardinality(pending) <= 1
    /\ pending # {} => (pending = {animationId} /\ isRunning)
    /\ pc # "idle" => (pending = {} /\ isRunning)

\* ticks have moved a particle, the animation was stopped and started again
\* and the first tick after that has thrown: the engine is running with no
\* callback registered
C28_Witness ==
    /\ isRunning
    /\ pc = "idle"
    /\ threw
    /\ pending = {}
    /\ \E i \in 1..PixelCount : Moved(i)

(***************************************************************************)
(* Trail histories.                                                        *)
(***************************************************************************)
\* a row of five pixels and a single pixel
TrailImages ==
    {VSplit(5, 1, 1, Black, White), VSplit(1, 1, 1, Black, White)}
TrailValues == {0, 1, 2}

\* the engine with trails: images of two sizes, start and stop
TrailNext ==
    \/ \E img \in TrailImages : LoadImage(img)
    \/ \E value \in TrailValues : SetParameter("trails", value)
    \/ StartAnimation
    \/ StopAnimation
    \/ \E id \in pending : AnimationFrame(id)
    \/ Animate

SpecTrails == Init /\ [][TrailNext]_vars

\* C29: at the end of every tick every trail history has at most
\* 40 + 16 * trails entries, only selected particles have a history, and
\* with trails 0 the selection and the histories are empty.
C29_TrailHistoriesBounded ==
    pc = "render" =>
        /\ \A k \in DOMAIN trailHistory :
               Len(trailHistory[k]) <= MaxTrailLength(params.trails)
        /\ DOMAIN trailHistory \subseteq trailPixels
        /\ params.trails = 0 => (trailPixels = {} /\ trailHistory = <<>>)

(***************************************************************************)
(* The cell population of the cellular flow.                               *)
(***************************************************************************)
TimerSpread == 1
CellTarget == 2

\* radius: 8 + Math.random() * 12, in hundredths
CellRadii == {1000, 2000}
\* divisionTimer of a new cell, of a daughter and of a parent after division
InitialTimers == 50..(50 + TimerSpread)
DaughterTimers == 40..(40 + TimerSpread)
ParentTimers == 60..(60 + TimerSpread)

\* the populations the initialisation of createCellularFlow can build (the
\* position, growth rate and phase of a cell are left out)
FreshCells(cells) ==
    [1..cells -> [radius : CellRadii, divisionTimer : InitialTimers,
                  daughter : {FALSE}]]

\* the loop over the cells from cell i on: every cell's timer goes down by
\* one until a cell divides, which ends the loop
RECURSIVE UpdateCells(_, _, _, _, _)
UpdateCells(centers, i, cells, daughterTimer, parentTimer) ==
    IF i > Len(centers) THEN centers
    ELSE LET timer == centers[i].divisionTimer - 1
         IN  IF timer <= 0 /\ 2 * Len(centers) < 5 * cells
             THEN Append([centers EXCEPT
                              ![i].radius = (@ * 9) \div 10,
                              ![i].divisionTimer = parentTimer],
                         [radius |-> (centers[i].radius * 8) \div 10,
                          divisionTimer |-> daughterTimer,
                          daughter |-> TRUE])
             ELSE UpdateCells([centers EXCEPT ![i].divisionTimer = timer],
                              i + 1, cells, daughterTimer, parentTimer)

\* createCellularFlow(width, height, cells, ...): the cell population it
\* leaves; the returned field is not kept
CreateCellularFlow(cells) ==
    /\ pc = "idle"
    /\ \E fresh \in FreshCells(cells) :
       \E daughterTimer \in DaughterTimers, parentTimer \in ParentTimers :
          cellularCenters' =
              UpdateCells(IF Len(cellularCenters) # cells THEN fresh
                          ELSE cellularCenters,
                          1, cells, daughterTimer, parentTimer)
    /\ UNCHANGED <<segVars, params, loopVars, pc, applied, threw, flowField,
                   auxVars, pulseVars, now, particleVars, displacedData,
                   sampled, feedbackFrames, recorder, manipulatorRegions,
                   pixelToRegion>>

CellNext == CreateCellularFlow(CellTarget)

SpecCells == Init /\ [][CellNext]_vars

\* C30: across successive createCellularFlow calls with the same target
\* cell count the population persists: a call keeps every cell it found, a
\* daughter stays a daughter, the count grows by at most one per call and
\* never exceeds 2.5 times the target.
C30_CellPopulationPersists ==
    /\ [](2 * Len(cellularCenters) <= 5 * CellTarget)
    /\ [][cellularCenters # <<>> =>
              /\ Len(cellularCenters') >= Len(cellularCenters)
              /\ Len(cellularCenters') <= Len(cellularCenters) + 1
              /\ \A i \in 1..Len(cellularCenters) :
                     cellularCenters'[i].daughter =
                         cellularCenters[i].daughter]_vars

====
